---- MODULE Spec2Model ----
(***************************************************************************)
(* Meeting capture orchestration of notu.ai-bot.                           *)
(*                                                                         *)
(* Spec      : the Session Registry (src/src/sessionManager.ts) and one    *)
(*             Orchestrator per session (src/src/meetBot.ts), driven by    *)
(*             the operator's start/stop requests, by timers and by the    *)
(*             diagnostic console lines of the in-page Agent.              *)
(* SpecAgent : the Agent's capture loop and leave sequence                 *)
(*             (src/extension/content.js).                                 *)
(* SpecCapture : segment management, of the Agent with its clock and of    *)
(*             the SegmentManager (src/src/captionScraper.ts).             *)
(* SpecLog   : the Orchestrator's console listener on the '[Caption]'      *)
(*             lines of the page's content scripts.                        *)
(***************************************************************************)
EXTENDS Integers, Sequences, FiniteSets, TLC

\* ------------------------------------------------------------------ bounds
MaxBots == 2
MaxMeetings == 1
MaxStops == 1

Bots == 1..MaxBots
Meetings == 1..MaxMeetings
NoBot == 0

\* ------------------------------------------------------------- vocabulary
BotStatus ==
  {"pending", "joining", "waiting_admission", "in_meeting", "recording",
   "leaving", "completed", "failed"}

NoError == "null"

\* error.message values of the exceptions join() can catch
LaunchErrors == {"browserType.launchPersistentContext: Failed to launch"}
NavigationErrors == {"page.goto: Timeout 30000ms exceeded."}
TargetClosedError == "page.goto: Target page, context or browser has been closed"
JoinFailedMessage == "Extension failed to join meeting"
CouldNotJoinMessage == "Could not join meeting"

\* the callers of MeetBot.leave()
LeaveCallers == {"stop", "timer", "end"}

VARIABLES
  \* ---- BotSessionManager
  sessions,            \* Map<meetingId, MeetBot>: Meetings -> Bots \cup {NoBot}
  finalizedMeetings,   \* Set<meetingId>
  created,             \* number of MeetBot objects constructed so far
  meetingOf,           \* the meetingId each bot was constructed with (0: not constructed)
  handlerPc,           \* position of each bot's 'completed' handler
  stops,               \* number of stopSession calls made on each bot
  lastStart,           \* the last startSession call: its meetingId, the bot whose session
                       \* answers it, and whether that bot was found in the map
  \* ---- backend (observed calls)
  completedDelivered,  \* per meeting: 'completed' events delivered to the registry
  meetingEnded,        \* per bot: 'bot_meeting_ended' events pushed to the backend
  finalizeRequests,    \* per meeting: finalizeMeeting invocations
  finalizeCalls,       \* per meeting: POST /finalize calls issued
  finalizeFailed,      \* per meeting: POST /finalize calls that failed
  \* ---- MeetBot
  status,              \* session.status
  error,               \* session.error
  isLeaving,
  page,                \* context/page are open (non-null)
  flushInterval,       \* the interval is armed
  timeoutTimer,        \* the max-duration timeout is armed
  joinPc,              \* position of join()
  joinTimedOut,        \* waitForExtensionJoin ended by its timeout branch
  leavePc,             \* position of each leave() invocation, by caller
  completedEmitted,    \* number of 'completed' events the bot emitted
  \* ---- the Agent as seen from the Orchestrator
  agentPc,             \* position of runBot in the page
  isActive,            \* botState.isActive
  stopPosted,          \* a 'stop' command is waiting in the page's message queue
  \* ---- BotSessionManager.shutdown
  shutdownPc,          \* "idle", "stopping" (awaiting Promise.all), "resolved"
  shutdownTargets,     \* the bots registered when shutdown() was called
  shutdownPending,     \* those whose stopSession has not resolved yet
  socketConnected,     \* the backend socket has not been disconnected by shutdown()
  \* ---- the 'status' events of the bots
  statusEvents         \* the events emitted by setStatus in the step just taken

regRest == <<finalizedMeetings, created, meetingOf, handlerPc, stops, lastStart>>
regVars == <<sessions, finalizedMeetings, created, meetingOf, handlerPc, stops, lastStart>>
backendVars == <<completedDelivered, meetingEnded, finalizeRequests, finalizeCalls, finalizeFailed>>
botVars == <<status, error, isLeaving, page, flushInterval, timeoutTimer, joinPc,
             joinTimedOut, leavePc, completedEmitted>>
agentVars == <<agentPc, isActive, stopPosted>>

shutdownVars == <<shutdownPc, shutdownTargets, shutdownPending, socketConnected>>

vars == <<regVars, backendVars, botVars, agentVars, shutdownVars, statusEvents>>

\* =========================================================================
\*  The Agent (src/extension/content.js, second variant): vocabulary and state
\* =========================================================================

\* ------------------------------------------------------------------ bounds
MaxRecords == 3        \* mutation records delivered to the caption observer
MaxBatch == 2          \* records in one MutationObserver callback
MaxStopCommands == 1   \* 'stop' commands posted into the page
MaxSeconds == 2        \* seconds the clock advances

\* text.startsWith(existing.text.substring(0, 20))
ContinuationPrefix == 20
\* speaker === 'Unknown Speaker' && text.length < 10
MinUnknownSpeakerText == 10
\* /^.{0,2}$/
MaxNoiseLength == 2
\* elapsed time is counted in tenths of a second: (Date.now() - startTime) / 1000
OneSecond == 10
\* wordCount / 2.5 seconds for each word
WordDuration == 4
\* Math.max(1, wordCount / 2.5)
MinDuration == 10

\* ---- text: a string is the sequence of its characters
UpperLetters == <<"A", "B", "C", "D", "E", "F", "G", "H", "I", "J", "K", "L", "M", "N", "O", "P", "Q", "R", "S", "T", "U", "V", "W", "X", "Y", "Z">>
LowerLetters == <<"a", "b", "c", "d", "e", "f", "g", "h", "i", "j", "k", "l", "m", "n", "o", "p", "q", "r", "s", "t", "u", "v", "w", "x", "y", "z">>
Digits == {"0", "1", "2", "3", "4", "5", "6", "7", "8", "9"}

\* EXIT_PHRASES
EXIT_PHRASES ==
  { <<"n", "o", "t", "e", "t", "a", "k", "e", "r", ",", " ", "p", "l", "e", "a", "s", "e", " ", "l", "e", "a", "v", "e">>   \* 'notetaker, please leave'
  , <<"n", "o", "t", "e", " ", "t", "a", "k", "e", "r", ",", " ", "p", "l", "e", "a", "s", "e", " ", "l", "e", "a", "v", "e">>   \* 'note taker, please leave'
  , <<"b", "o", "t", ",", " ", "p", "l", "e", "a", "s", "e", " ", "l", "e", "a", "v", "e">>   \* 'bot, please leave'
  , <<"n", "o", "t", "u", ",", " ", "p", "l", "e", "a", "s", "e", " ", "l", "e", "a", "v", "e">>   \* 'notu, please leave'
  , <<"n", "o", "t", "u", " ", "s", "i", "l", "a", "h", "k", "a", "n", " ", "k", "e", "l", "u", "a", "r">>   \* 'notu silahkan keluar'
  , <<"n", "o", "t", "u", " ", "k", "e", "l", "u", "a", "r">>   \* 'notu keluar'
  , <<"n", "o", "t", "u", " ", "o", "u", "t">>   \* 'notu out'
  , <<"n", "o", "t", "u", " ", "e", "x", "i", "t">>   \* 'notu exit'
  , <<"b", "o", "t", " ", "k", "e", "l", "u", "a", "r">>   \* 'bot keluar'
  , <<"b", "o", "t", " ", "s", "i", "l", "a", "h", "k", "a", "n", " ", "k", "e", "l", "u", "a", "r">>   \* 'bot silahkan keluar'
  }

\* UI_PATTERNS: the unanchored case-insensitive alternatives, in lower case
UiSubstrings ==
  { <<"y", "o", "u", " ", "l", "e", "f", "t", " ", "t", "h", "e", " ", "m", "e", "e", "t", "i", "n", "g">>   \* 'you left the meeting'
  , <<"r", "e", "t", "u", "r", "n", " ", "t", "o", " ", "h", "o", "m", "e", " ", "s", "c", "r", "e", "e", "n">>   \* 'return to home screen'
  , <<"l", "e", "a", "v", "e", " ", "c", "a", "l", "l">>   \* 'leave call'
  , <<"f", "e", "e", "d", "b", "a", "c", "k">>   \* 'feedback'
  , <<"a", "u", "d", "i", "o", " ", "a", "n", "d", " ", "v", "i", "d", "e", "o">>   \* 'audio and video'
  , <<"l", "e", "a", "r", "n", " ", "m", "o", "r", "e">>   \* 'learn more'
  , <<"a", "n", "d", "a", " ", "t", "e", "l", "a", "h", " ", "k", "e", "l", "u", "a", "r">>   \* 'anda telah keluar'
  , <<"y", "o", "u", "'", "v", "e", " ", "l", "e", "f", "t">>   \* "you've left"
  , <<"t", "h", "i", "s", " ", "c", "a", "l", "l", " ", "i", "s", " ", "o", "p", "e", "n", " ", "t", "o", " ", "a", "n", "y", "o", "n", "e">>   \* 'this call is open to anyone'
  , <<"h", "o", "v", "e", "r", " ", "t", "r", "a", "y">>   \* 'hover tray'
  , <<"e", "s", "c", "a", "p", "e", " ", "t", "o", " ", "c", "l", "o", "s", "e">>   \* 'escape to close'
  , <<"i", "n", "d", "o", "n", "e", "s", "i", "a", "n">>   \* 'indonesian'
  , <<"e", "n", "g", "l", "i", "s", "h">>   \* 'english'
  }

\* UI_PATTERNS: the ^...$ case-insensitive alternatives, in lower case
UiExact ==
  { <<"m", "e", "e", "t", "i", "n", "g", " ", "d", "e", "t", "a", "i", "l", "s">>   \* 'meeting details'
  , <<"s", "h", "a", "r", "e", " ", "s", "c", "r", "e", "e", "n">>   \* 'share screen'
  , <<"s", "e", "n", "d", " ", "a", " ", "r", "e", "a", "c", "t", "i", "o", "n">>   \* 'send a reaction'
  , <<"c", "h", "a", "t", " ", "w", "i", "t", "h", " ", "e", "v", "e", "r", "y", "o", "n", "e">>   \* 'chat with everyone'
  , <<"m", "e", "e", "t", "i", "n", "g", " ", "t", "o", "o", "l", "s">>   \* 'meeting tools'
  , <<"c", "a", "l", "l", " ", "e", "n", "d", "s", " ", "s", "o", "o", "n">>   \* 'call ends soon'
  , <<"m", "o", "r", "e", " ", "o", "p", "t", "i", "o", "n", "s">>   \* 'more options'
  , <<"m", "e", "e", "t", "i", "n", "g", " ", "t", "i", "m", "e", "r">>   \* 'meeting timer'
  , <<"h", "a", "n", "d", " ", "r", "a", "i", "s", "e", "s">>   \* 'hand raises'
  , <<"i", "n", "f", "o">>   \* 'info'
  , <<"c", "h", "a", "t">>   \* 'chat'
  , <<"a", "p", "p", "s">>   \* 'apps'
  , <<"a", "l", "a", "r", "m">>   \* 'alarm'
  , <<"m", "o", "o", "d">>   \* 'mood'
  , <<"m", "e", "e", "t", "i", "n", "g", "_", "r", "o", "o", "m">>   \* 'meeting_room'
  , <<"c", "o", "m", "p", "u", "t", "e", "r", "_", "a", "r", "r", "o", "w", "_", "u", "p">>   \* 'computer_arrow_up'
  , <<"c", "o", "m", "p", "u", "t", "e", "r", "_", "a", "r", "r", "o", "w", "_", "d", "o", "w", "n">>   \* 'computer_arrow_down'
  , <<"b", "a", "c", "k", "_", "h", "a", "n", "d">>   \* 'back_hand'
  , <<"c", "l", "o", "s", "e", "d", "_", "c", "a", "p", "t", "i", "o", "n">>   \* 'closed_caption'
  , <<"c", "l", "o", "s", "e", "d", "_", "c", "a", "p", "t", "i", "o", "n", "_", "o", "f", "f">>   \* 'closed_caption_off'
  , <<"a", "r", "r", "o", "w", "_", "d", "r", "o", "p", "_", "d", "o", "w", "n">>   \* 'arrow_drop_down'
  , <<"c", "h", "a", "t", "_", "b", "u", "b", "b", "l", "e">>   \* 'chat_bubble'
  , <<"e", "p", "g", "-">>   \* 'epg-'
  , <<"n", "o", "t", "u", " ", "a", "i">>   \* 'notu ai'
  }

\* UI_PATTERNS: the ^... case-insensitive alternatives without $, in lower case
UiPrefixes ==
  { <<"t", "u", "r", "n", " ", "o", "n", " ", "c", "a", "p", "t", "i", "o", "n", "s">>   \* 'turn on captions'
  , <<"r", "a", "i", "s", "e", " ", "h", "a", "n", "d">>   \* 'raise hand'
  , <<"p", "r", "e", "s", "s", " ", "d", "o", "w", "n", " ", "a", "r", "r", "o", "w">>   \* 'press down arrow'
  }

PeoplePrefix == <<"p", "e", "o", "p", "l", "e">>

TextEmpty == <<>>   \* ''
TextHiThere == <<"H", "i", " ", "t", "h", "e", "r", "e">>   \* 'Hi there'
TextHiThereEveryone == <<"H", "i", " ", "t", "h", "e", "r", "e", ",", " ", "e", "v", "e", "r", "y", "o", "n", "e">>   \* 'Hi there, everyone'
TextBotPleaseLeave == <<"B", "o", "t", ",", " ", "p", "l", "e", "a", "s", "e", " ", "l", "e", "a", "v", "e">>   \* 'Bot, please leave'
TextFeedback == <<"f", "e", "e", "d", "b", "a", "c", "k">>   \* 'feedback'
TextGoodMorning == <<"G", "o", "o", "d", " ", "m", "o", "r", "n", "i", "n", "g">>   \* 'Good morning'
TextGoodbye == <<"G", "o", "o", "d", "b", "y", "e", " ", "e", "v", "e", "r", "y", "o", "n", "e">>   \* 'Goodbye everyone'
NameBob == <<"B", "o", "b">>   \* 'Bob'
NameAlice == <<"A", "l", "i", "c", "e">>   \* 'Alice'
NameSpeaker == <<"S", "p", "e", "a", "k", "e", "r">>   \* 'Speaker'
NameUnknownSpeaker == <<"U", "n", "k", "n", "o", "w", "n", " ", "S", "p", "e", "a", "k", "e", "r">>   \* 'Unknown Speaker'

\* String.prototype.toLowerCase, character by character
LowerChar(c) ==
  IF \E i \in DOMAIN UpperLetters : UpperLetters[i] = c
    THEN LowerLetters[CHOOSE i \in DOMAIN UpperLetters : UpperLetters[i] = c]
    ELSE c

ToLowerCase(text) == [i \in DOMAIN text |-> LowerChar(text[i])]

\* String.prototype.startsWith
StartsWith(text, p) == Len(p) <= Len(text) /\ SubSeq(text, 1, Len(p)) = p

\* String.prototype.includes
Includes(text, p) ==
  \E i \in 1..(Len(text) + 1) :
    i + Len(p) - 1 <= Len(text) /\ SubSeq(text, i, i + Len(p) - 1) = p

\* String.prototype.substring(0, n)
Substring0(text, n) == SubSeq(text, 1, IF Len(text) < n THEN Len(text) ELSE n)

\* /^[a-z_]+$/
IsLowerIdentifier(text) ==
  /\ Len(text) > 0
  /\ \A i \in DOMAIN text :
       text[i] = "_" \/ \E j \in DOMAIN LowerLetters : LowerLetters[j] = text[i]

\* /^People\d*$/i
IsPeopleCount(text) ==
  /\ StartsWith(ToLowerCase(text), PeoplePrefix)
  /\ \A i \in (Len(PeoplePrefix) + 1)..Len(text) : text[i] \in Digits

\* UI_PATTERNS.some(pattern => pattern.test(text))
IsUiNoise(text) ==
  LET lower == ToLowerCase(text)
  IN  \/ \E p \in UiSubstrings : Includes(lower, p)
      \/ lower \in UiExact
      \/ \E p \in UiPrefixes : StartsWith(lower, p)
      \/ IsPeopleCount(text)
      \/ IsLowerIdentifier(text)
      \/ Len(text) <= MaxNoiseLength

\* EXIT_PHRASES.some(p => normalized.includes(p))
HasExitPhrase(text) == \E p \in EXIT_PHRASES : Includes(ToLowerCase(text), p)

\* the caption texts and speaker badges the page shows in the model
Texts == {TextEmpty, TextHiThere, TextHiThereEveryone, TextBotPleaseLeave, TextFeedback}
NoBadge == <<>>
Badges == {NameAlice, NoBadge}
\* a DOM node handed to processCaption: its speaker badge and its text
Nodes == [badge : Badges, text : Texts]
\* a MutationRecord: an added node, or the parent of a changed text node
RecordTypes == {"childList", "characterData"}
Records == [type : RecordTypes, node : Nodes]
Batches == UNION {[1..n -> Records] : n \in 1..MaxBatch}

LeaveReasons == {"exit_phrase", "meeting_ended", "max_duration", "user_requested"}

VARIABLES
  botState,            \* isActive, isInMeeting, lastCaption, segmentCount, segments,
                       \* activeSegments (in insertion order), observing (the caption
                       \* observer is connected), flushTimer (the interval is armed)
  lastSpeaker,         \* startCaptionScraping's lastSpeaker (<<>>: null)
  runBotPc,            \* position of runBot
  checkEnd,            \* watchForMeetingEnd's interval is armed
  maxDurationTimer,    \* watchForMeetingEnd's timeout is armed
  dom,                 \* what the page shows: "prejoin", "call", "ended"
  leaving,             \* leaveMeeting invocations suspended in clickElement's delay
  leaveLog,            \* every leaveMeeting invocation: reason, triggering text and record
  completedMessages,   \* the 'completed' messages sent
  stopCommands,        \* 'stop' commands waiting in the page's message queue
  stopsPosted,         \* 'stop' commands posted so far
  recordsSeen,         \* mutation records delivered so far
  elapsed,             \* Date.now() - startTime, in tenths of a second
  accepted             \* the fragments handed to segment management: speaker, text, time

captureVars == <<botState, lastSpeaker, runBotPc, checkEnd, maxDurationTimer, dom,
                 leaving, leaveLog, completedMessages, stopCommands, stopsPosted,
                 recordsSeen, elapsed, accepted>>

InitAgent ==
  /\ botState = [isActive |-> FALSE, isInMeeting |-> FALSE, lastCaption |-> <<>>,
                 segmentCount |-> 0, segments |-> <<>>, activeSegments |-> <<>>,
                 observing |-> FALSE, flushTimer |-> FALSE]
  /\ lastSpeaker = <<>>
  /\ runBotPc = "loaded"
  /\ checkEnd = FALSE
  /\ maxDurationTimer = FALSE
  /\ dom = "prejoin"
  /\ leaving = <<>>
  /\ leaveLog = <<>>
  /\ completedMessages = <<>>
  /\ stopCommands = 0
  /\ stopsPosted = 0
  /\ recordsSeen = 0
  /\ elapsed = 0
  /\ accepted = <<>>

\* ---- SegmentManager (src/src/captionScraper.ts)
MaxCalls == 5          \* calls made on one SegmentManager

VARIABLES
  segmentManager,      \* segments, activeSegments (in insertion order), flushedCount
  managerTime,         \* Date.now() - startTime, in tenths of a second
  managerCalls,        \* calls made so far
  segmentIds,          \* segment objects created so far (each carries its number as id)
  snapshots,           \* results of getSegmentsForFlush since the last markFlushed
  flushed,             \* ids of the segments of every snapshot that markFlushed acknowledged
  returned,            \* id and text of every segment a getSegmentsForFlush has returned
  terminalFlush,       \* the caller has made the markFlushed of its terminal flush
  lastAdded            \* the text of the latest addCaption call, <<>> before the first

managerVars == <<segmentManager, managerTime, managerCalls, segmentIds, snapshots, flushed,
                 returned, terminalFlush, lastAdded>>

InitManager ==
  /\ segmentManager = [segments |-> <<>>, activeSegments |-> <<>>, flushedCount |-> 0]
  /\ managerTime = 0
  /\ managerCalls = 0
  /\ segmentIds = 0
  /\ snapshots = <<>>
  /\ flushed = {}
  /\ returned = {}
  /\ terminalFlush = FALSE
  /\ lastAdded = <<>>

\* =========================================================================
\*  Spec: Session Registry + Orchestrator
\* =========================================================================

\* ---- the Orchestrator's console listener (src/src/meetBot.ts) on the lines
\* the page prints for accepted captions. src/extension/content.js holds two
\* scripts, each with its own capture loop and its own '[Caption]' line.
MaxLines == 3          \* caption lines the console listener receives

VARIABLES
  botSegments,         \* MeetBot.segments: speaker, text and, as a ghost, the caption it came from
  printed,             \* per content script, the captions it has printed a line for
  delivered            \* how many of botSegments were in the payload of a flush or finalize call

logVars == <<botSegments, printed, delivered>>

\* ---- the join detector of the Agent: isInMeeting() of either content script
VARIABLES
  pageSeen             \* the latest isInMeeting() call: script, page, result; NoCall before the first

pageVars == <<pageSeen>>

NoCall == [script |-> 0]

InitPage == pageSeen = NoCall

Scripts == {1, 2}

InitLog ==
  /\ botSegments = <<>>
  /\ printed = [script \in Scripts |-> {}]
  /\ delivered = 0

Init ==
  /\ sessions = [m \in Meetings |-> NoBot]
  /\ finalizedMeetings = {}
  /\ created = 0
  /\ meetingOf = [b \in Bots |-> 0]
  /\ handlerPc = [b \in Bots |-> "idle"]
  /\ stops = [b \in Bots |-> 0]
  /\ lastStart = [meetingId |-> 0, bot |-> NoBot, existing |-> FALSE]
  /\ completedDelivered = [m \in Meetings |-> 0]
  /\ meetingEnded = [b \in Bots |-> 0]
  /\ finalizeRequests = [m \in Meetings |-> 0]
  /\ finalizeCalls = [m \in Meetings |-> 0]
  /\ finalizeFailed = [m \in Meetings |-> 0]
  /\ status = [b \in Bots |-> "pending"]
  /\ error = [b \in Bots |-> NoError]
  /\ isLeaving = [b \in Bots |-> FALSE]
  /\ page = [b \in Bots |-> FALSE]
  /\ flushInterval = [b \in Bots |-> FALSE]
  /\ timeoutTimer = [b \in Bots |-> FALSE]
  /\ joinPc = [b \in Bots |-> "idle"]
  /\ joinTimedOut = [b \in Bots |-> FALSE]
  /\ leavePc = [b \in Bots |-> [k \in LeaveCallers |-> "idle"]]
  /\ completedEmitted = [b \in Bots |-> 0]
  /\ agentPc = [b \in Bots |-> "none"]
  /\ isActive = [b \in Bots |-> FALSE]
  /\ stopPosted = [b \in Bots |-> FALSE]
  /\ shutdownPc = "idle"
  /\ shutdownTargets = {}
  /\ shutdownPending = {}
  /\ socketConnected = TRUE
  /\ statusEvents = <<>>
  /\ InitAgent
  /\ InitManager
  /\ InitLog
  /\ InitPage

\* ---- BotSessionManager helpers

\* (mutant) startSession without the lookup of an existing session
HasSession_Never(m) == FALSE

\* this.sessions.has(meetingId)
HasSession(m) == sessions[m] # NoBot

\* (mutant) finalizeMeeting without the duplicate check
AlreadyFinalized_Never(m) == FALSE

\* this.finalizedMeetings.has(meetingId)
AlreadyFinalized(m) == m \in finalizedMeetings

\* (mutant) the catch branch keeps the meetingId in the set
FinalizeErrorSet_Keep(m) == finalizedMeetings

\* the catch branch of finalizeMeeting: this.finalizedMeetings.delete(meetingId)
FinalizeErrorSet(m) == finalizedMeetings \ {m}

\* the page is gone: the content script and its pending commands go with it
AgentGone(b) ==
  /\ agentPc' = [agentPc EXCEPT ![b] = "none"]
  /\ isActive' = [isActive EXCEPT ![b] = FALSE]
  /\ stopPosted' = [stopPosted EXCEPT ![b] = FALSE]

\* the synchronous part of cleanup(): both timers are cleared and nulled
\* setStatus(s) on bot b whose status was `was`: the 'status' event it emits
\* (startSession forwards each one as a bot_status_change push)
StatusEvent(b, s, was) == [bot |-> b, status |-> s, was |-> was]

\* the events of leave() up to its first wait
LeaveEvents(b) ==
  IF page[b]
    THEN <<StatusEvent(b, "leaving", status[b])>>
    ELSE <<StatusEvent(b, "leaving", status[b]), StatusEvent(b, "completed", "leaving")>>

ClearTimers(b) ==
  /\ flushInterval' = [flushInterval EXCEPT ![b] = FALSE]
  /\ timeoutTimer' = [timeoutTimer EXCEPT ![b] = FALSE]

\* leave() called by k, up to the await on context.close() inside cleanup():
\* setStatus('leaving'), the stop command is posted into the page,
\* flushSegments, and cleanup() clears both timers. Without a context nothing
\* is awaited on and leave() runs on to setStatus('completed').
LeaveBegin(b, k) ==
  /\ ClearTimers(b)
  /\ statusEvents' = LeaveEvents(b)
  /\ IF page[b]
       THEN /\ status' = [status EXCEPT ![b] = "leaving"]
            /\ stopPosted' = [stopPosted EXCEPT ![b] = TRUE]
            /\ leavePc' = [leavePc EXCEPT ![b][k] = "closing"]
       ELSE /\ status' = [status EXCEPT ![b] = "completed"]
            /\ UNCHANGED <<stopPosted, leavePc>>

\* emitToBackend('bot_meeting_ended', ...) for each bot of a set: pushed when
\* the socket is connected
EmitMeetingEnded(bots) ==
  meetingEnded' = [b \in Bots |-> IF b \in bots /\ socketConnected
                                    THEN meetingEnded[b] + 1 ELSE meetingEnded[b]]

\* the backend counters that only the 'completed' handler changes
finalizeVars == <<completedDelivered, finalizeRequests, finalizeCalls, finalizeFailed>>

\* the 'completed' handler of startSession, up to the await inside
\* finalizeMeeting; a skipped finalize returns at once and the handler goes on
\* to this.sessions.delete(meetingId)
OnCompleted(b) ==
  LET m == meetingOf[b] IN
  /\ completedDelivered' = [completedDelivered EXCEPT ![m] = @ + 1]
  /\ EmitMeetingEnded({b})
  /\ finalizeRequests' = [finalizeRequests EXCEPT ![m] = @ + 1]
  /\ IF AlreadyFinalized(m)
       THEN /\ handlerPc' = [handlerPc EXCEPT ![b] = "done"]
            /\ sessions' = [sessions EXCEPT ![m] = NoBot]
            /\ UNCHANGED <<finalizedMeetings, finalizeCalls>>
       ELSE /\ finalizedMeetings' = finalizedMeetings \cup {m}
            /\ finalizeCalls' = [finalizeCalls EXCEPT ![m] = @ + 1]
            /\ handlerPc' = [handlerPc EXCEPT ![b] = "posting"]
            /\ sessions' = sessions

\* ---- BotSessionManager.startSession

StartSession(m) ==
  IF HasSession(m)
    THEN /\ lastStart' = [meetingId |-> m, bot |-> sessions[m], existing |-> TRUE]
         /\ statusEvents' = <<>>
         /\ UNCHANGED <<sessions, finalizedMeetings, created, meetingOf, handlerPc, stops,
                        backendVars, botVars, agentVars>>
    ELSE /\ created < MaxBots
         /\ LET b == created + 1 IN
            /\ created' = b
            /\ meetingOf' = [meetingOf EXCEPT ![b] = m]
            /\ sessions' = [sessions EXCEPT ![m] = b]
            /\ lastStart' = [meetingId |-> m, bot |-> b, existing |-> FALSE]
            \* bot.join() up to launchPersistentContext
            /\ status' = [status EXCEPT ![b] = "joining"]
            /\ statusEvents' = <<StatusEvent(b, "joining", status[b])>>
            /\ joinPc' = [joinPc EXCEPT ![b] = "launching"]
         /\ UNCHANGED <<finalizedMeetings, handlerPc, stops, backendVars, error, isLeaving,
                        page, flushInterval, timeoutTimer, joinTimedOut, leavePc,
                        completedEmitted, agentVars>>

\* ---- MeetBot.join

\* a catch block that rethrows without recording the failure
CatchStatus_Keep(b) == status[b]

\* the status the catch block of join() sets
CatchStatus(b) == "failed"

\* the catch block of join(): setStatus('failed', error.message) and cleanup(),
\* up to the await on context.close(). Without a context nothing is awaited
\* on: join() rethrows and startSession's catch deletes the map entry.
JoinCatch(b, message) ==
  /\ status' = [status EXCEPT ![b] = CatchStatus(b)]
  /\ statusEvents' = <<StatusEvent(b, CatchStatus(b), status[b])>>
  /\ error' = [error EXCEPT ![b] = message]
  /\ ClearTimers(b)
  /\ IF page[b]
       THEN /\ joinPc' = [joinPc EXCEPT ![b] = "closing"]
            /\ sessions' = sessions
       ELSE /\ joinPc' = [joinPc EXCEPT ![b] = "threw"]
            /\ sessions' = [sessions EXCEPT ![meetingOf[b]] = NoBot]

\* every bot launches its persistent context on the same userDataDir
\* ('.chrome-profile'); a browser does not start a second instance on a user
\* data directory that is in use
ProfileInUse(b) == \E o \in Bots \ {b} : page[o]

\* launchPersistentContext settled
JoinLaunched(b) ==
  /\ joinPc[b] = "launching"
  /\ \/ /\ ~ProfileInUse(b)
        /\ page' = [page EXCEPT ![b] = TRUE]
        /\ joinPc' = [joinPc EXCEPT ![b] = "navigating"]
        /\ statusEvents' = <<>>
        /\ UNCHANGED <<sessions, status, error, flushInterval, timeoutTimer>>
     \/ /\ \E e \in LaunchErrors : JoinCatch(b, e)
        /\ page' = page
  /\ UNCHANGED <<regRest, backendVars, isLeaving, joinTimedOut, leavePc, completedEmitted,
                 agentVars>>

\* page.goto (a new document: the content script loads, a command posted into
\* the previous document is gone), the start command and
\* setStatus('waiting_admission')
JoinNavigated(b) ==
  /\ joinPc[b] = "navigating"
  /\ \/ /\ page[b]
        /\ status' = [status EXCEPT ![b] = "waiting_admission"]
        /\ statusEvents' = <<StatusEvent(b, "waiting_admission", status[b])>>
        /\ joinPc' = [joinPc EXCEPT ![b] = "waiting"]
        /\ agentPc' = [agentPc EXCEPT ![b] = "loaded"]
        /\ stopPosted' = [stopPosted EXCEPT ![b] = FALSE]
        /\ UNCHANGED <<sessions, error, flushInterval, timeoutTimer>>
     \/ /\ \E e \in (IF page[b] THEN NavigationErrors ELSE {TargetClosedError}) :
             JoinCatch(b, e)
        /\ UNCHANGED <<agentPc, stopPosted>>
  /\ UNCHANGED <<regRest, backendVars, isLeaving, page, joinTimedOut, leavePc,
                 completedEmitted, isActive>>

\* a wait whose deadline never comes
DeadlineReached_Never(b) == FALSE

\* Date.now() - startTime >= timeout: the clock runs, so a tick of checkStatus
\* finds the deadline passed; the ticks before it re-arm the timer and change
\* nothing
DeadlineReached(b) == TRUE

\* one checkStatus tick of waitForExtensionJoin and, when it resolves, the
\* rest of join()
JoinPoll(b) ==
  /\ joinPc[b] = "waiting"
  /\ IF status[b] \in {"in_meeting", "recording"}
       THEN \* setStatus('in_meeting'), then setStatus('recording')
            /\ status' = [status EXCEPT ![b] = "recording"]
            /\ statusEvents' = <<StatusEvent(b, "in_meeting", status[b]),
                                 StatusEvent(b, "recording", "in_meeting")>>
            /\ flushInterval' = [flushInterval EXCEPT ![b] = TRUE]
            /\ timeoutTimer' = [timeoutTimer EXCEPT ![b] = TRUE]
            /\ joinPc' = [joinPc EXCEPT ![b] = "joined"]
            /\ UNCHANGED <<sessions, error, joinTimedOut>>
       ELSE IF status[b] = "failed"
         THEN /\ JoinCatch(b, JoinFailedMessage)
              /\ joinTimedOut' = joinTimedOut
         ELSE /\ DeadlineReached(b)
              /\ JoinCatch(b, JoinFailedMessage)
              /\ joinTimedOut' = [joinTimedOut EXCEPT ![b] = TRUE]
  /\ UNCHANGED <<regRest, backendVars, isLeaving, page, leavePc, completedEmitted, agentVars>>

\* context.close() of the catch block's cleanup() is done; join() rethrows and startSession's
\* catch deletes the map entry of the meetingId
JoinThrow(b) ==
  /\ joinPc[b] = "closing"
  /\ joinPc' = [joinPc EXCEPT ![b] = "threw"]
  /\ statusEvents' = <<>>
  /\ page' = [page EXCEPT ![b] = FALSE]
  /\ AgentGone(b)
  /\ sessions' = [sessions EXCEPT ![meetingOf[b]] = NoBot]
  /\ UNCHANGED <<finalizedMeetings, created, meetingOf, handlerPc, stops, lastStart,
                 backendVars, status, error, isLeaving, flushInterval, timeoutTimer,
                 joinTimedOut, leavePc, completedEmitted>>

\* ---- MeetBot.leave

\* cleanup() returned: the context is closed, setStatus('completed')
\* shutdown() after Promise.all(stopPromises): the socket is disconnected, and
\* the signal handler that awaited shutdown() ends the process
ShutdownResolved ==
  /\ shutdownPc' = "resolved"
  /\ shutdownPending' = {}
  /\ socketConnected' = FALSE

\* the stopSession that shutdown() started for bot b has resolved
ShutdownStopResolved(b) ==
  IF shutdownPc = "stopping" /\ shutdownPending = {b}
    THEN ShutdownResolved /\ UNCHANGED shutdownTargets
    ELSE /\ shutdownPending' = shutdownPending \ {b}
         /\ UNCHANGED <<shutdownPc, shutdownTargets, socketConnected>>

LeaveFinish(b, k) ==
  /\ leavePc[b][k] = "closing"
  /\ IF k = "stop" THEN ShutdownStopResolved(b) ELSE UNCHANGED shutdownVars
  /\ leavePc' = [leavePc EXCEPT ![b][k] = "idle"]
  /\ page' = [page EXCEPT ![b] = FALSE]
  /\ AgentGone(b)
  /\ status' = [status EXCEPT ![b] = "completed"]
  /\ statusEvents' = <<StatusEvent(b, "completed", status[b])>>
  \* stopSession goes on after await bot.leave(reason)
  /\ EmitMeetingEnded(IF k = "stop" THEN {b} ELSE {})
  /\ UNCHANGED <<regVars, finalizeVars, error, isLeaving, flushInterval, timeoutTimer, joinPc,
                 joinTimedOut, completedEmitted>>

\* ---- BotSessionManager.stopSession: bot.leave(reason) on the registered bot
StopSession(m) ==
  /\ sessions[m] # NoBot
  /\ LET b == sessions[m] IN
     /\ stops[b] < MaxStops
     /\ leavePc[b]["stop"] = "idle"
     /\ stops' = [stops EXCEPT ![b] = @ + 1]
     /\ LeaveBegin(b, "stop")
     \* without a context leave() awaits nothing that takes time
     /\ EmitMeetingEnded(IF page[b] THEN {} ELSE {b})
  /\ UNCHANGED <<sessions, finalizedMeetings, created, meetingOf, handlerPc, lastStart,
                 finalizeVars, error, isLeaving, page, joinPc, joinTimedOut, completedEmitted,
                 agentPc, isActive>>

\* ---- BotSessionManager.shutdown: stopSession on every key of the map, each
\* run up to its first await; then Promise.all
Registered == {sessions[m] : m \in Meetings} \ {NoBot}

\* the events of the stopSession calls, in the order of the map's keys (a
\* later registration has a later bot), for the bots up to n
RECURSIVE ShutdownEvents(_)
ShutdownEvents(n) ==
  IF n = 0 THEN <<>>
  ELSE ShutdownEvents(n - 1) \o (IF n \in Registered THEN LeaveEvents(n) ELSE <<>>)

Shutdown ==
  /\ shutdownPc = "idle"
  /\ \A b \in Registered : leavePc[b]["stop"] = "idle"
  /\ shutdownTargets' = Registered
  /\ statusEvents' = ShutdownEvents(MaxBots)
  /\ flushInterval' = [b \in Bots |-> IF b \in Registered THEN FALSE ELSE flushInterval[b]]
  /\ timeoutTimer' = [b \in Bots |-> IF b \in Registered THEN FALSE ELSE timeoutTimer[b]]
  /\ status' = [b \in Bots |-> IF b \notin Registered THEN status[b]
                                ELSE IF page[b] THEN "leaving" ELSE "completed"]
  /\ stopPosted' = [b \in Bots |-> (b \in Registered /\ page[b]) \/ stopPosted[b]]
  /\ leavePc' = [b \in Bots |-> IF b \in Registered /\ page[b]
                                  THEN [leavePc[b] EXCEPT !["stop"] = "closing"]
                                  ELSE leavePc[b]]
  /\ IF \E b \in Registered : page[b]
       THEN /\ shutdownPc' = "stopping"
            /\ shutdownPending' = {b \in Registered : page[b]}
            /\ socketConnected' = socketConnected
       ELSE ShutdownResolved
  /\ EmitMeetingEnded({b \in Registered : ~page[b]})
  /\ UNCHANGED <<regVars, finalizeVars, error, isLeaving, page, joinPc, joinTimedOut,
                 completedEmitted, agentPc, isActive>>

\* the process runs until the signal handler's process.exit(0)
ProcessAlive == shutdownPc # "resolved"

\* ---- the max-duration timeout armed by join(): () => this.leave('max_duration_reached')
TimeoutTimerFires(b) ==
  /\ timeoutTimer[b]
  /\ LeaveBegin(b, "timer")
  /\ UNCHANGED <<regVars, backendVars, error, isLeaving, page, joinPc, joinTimedOut,
                 completedEmitted, agentPc, isActive>>

\* ---- the 'completed' handler after the finalize POST settled
FinalizeSettled(b) ==
  /\ handlerPc[b] = "posting"
  /\ LET m == meetingOf[b] IN
     /\ \/ UNCHANGED <<finalizedMeetings, finalizeFailed>>
        \/ /\ finalizedMeetings' = FinalizeErrorSet(m)
           /\ finalizeFailed' = [finalizeFailed EXCEPT ![m] = @ + 1]
     /\ sessions' = [sessions EXCEPT ![m] = NoBot]
  /\ handlerPc' = [handlerPc EXCEPT ![b] = "done"]
  /\ statusEvents' = <<>>
  /\ meetingEnded' = meetingEnded
  /\ UNCHANGED <<created, meetingOf, stops, lastStart, completedDelivered, finalizeRequests,
                 finalizeCalls, botVars, agentVars>>

\* ---- MeetBot.parseExtensionLog on one console line of the Agent; pending
\* tells whether a 'stop' command is still waiting in the page when the line
\* was printed

\* a line that only sets the status
SetStatusLine(b, s, message, pending) ==
  /\ status' = [status EXCEPT ![b] = s]
  /\ statusEvents' = <<StatusEvent(b, s, status[b])>>
  /\ error' = IF s = "failed" THEN [error EXCEPT ![b] = message] ELSE error
  /\ stopPosted' = [stopPosted EXCEPT ![b] = pending]
  /\ UNCHANGED <<regVars, backendVars, isLeaving, page, flushInterval, timeoutTimer, joinPc,
                 joinTimedOut, leavePc, completedEmitted>>

\* handleMeetingEnd: guarded by isLeaving, emits 'completed', then leave('meeting_ended')
HandleMeetingEnd(b, pending) ==
  IF isLeaving[b]
    THEN /\ stopPosted' = [stopPosted EXCEPT ![b] = pending]
         /\ statusEvents' = <<>>
         /\ UNCHANGED <<regVars, backendVars, botVars>>
    ELSE /\ isLeaving' = [isLeaving EXCEPT ![b] = TRUE]
         /\ completedEmitted' = [completedEmitted EXCEPT ![b] = @ + 1]
         /\ OnCompleted(b)
         /\ LeaveBegin(b, "end")
         /\ UNCHANGED <<created, meetingOf, stops, lastStart, finalizeFailed, error, page,
                        joinPc, joinTimedOut>>

ParseExtensionLog(b, line, pending) ==
  CASE line \in {"IN_MEETING status sent", "Successfully joined meeting"} ->
         SetStatusLine(b, "in_meeting", NoError, pending)
    [] line = "Bot is now recording" -> SetStatusLine(b, "recording", NoError, pending)
    [] line \in {"Meeting ended detected", "Leaving meeting"} -> HandleMeetingEnd(b, pending)
    [] line \in {"Could not join meeting", "Blocked from joining"} ->
         SetStatusLine(b, "failed", CouldNotJoinMessage, pending)

\* ---- the Agent's steps that print a line the Orchestrator reacts to

\* runBot starts (auto-start timer or 'start' command), guarded by isActive
AgentRunBot(b) ==
  /\ page[b] /\ agentPc[b] = "loaded" /\ ~isActive[b]
  /\ agentPc' = [agentPc EXCEPT ![b] = "joining"]
  /\ isActive' = [isActive EXCEPT ![b] = TRUE]
  /\ statusEvents' = <<>>
  /\ UNCHANGED <<regVars, backendVars, botVars, stopPosted>>

\* waitUntilJoined saw the meeting UI: 'Successfully joined meeting!' and, with
\* no await in between, 'IN_MEETING status sent!'
AgentJoined(b) ==
  /\ page[b] /\ agentPc[b] = "joining"
  /\ agentPc' = [agentPc EXCEPT ![b] = "captions"]
  /\ isActive' = isActive
  /\ ParseExtensionLog(b, "IN_MEETING status sent", stopPosted[b])

\* waitUntilJoined gave up or was blocked: status 'failed' is sent
AgentJoinFailed(b) ==
  /\ page[b] /\ agentPc[b] = "joining"
  /\ agentPc' = [agentPc EXCEPT ![b] = "exited"]
  /\ isActive' = [isActive EXCEPT ![b] = FALSE]
  /\ ParseExtensionLog(b, "Could not join meeting", stopPosted[b])

\* captions on, capture loop and watchers started: 'Bot is now recording!'
AgentRecording(b) ==
  /\ page[b] /\ agentPc[b] = "captions"
  /\ agentPc' = [agentPc EXCEPT ![b] = "recording"]
  /\ isActive' = isActive
  /\ ParseExtensionLog(b, "Bot is now recording", stopPosted[b])

\* the capture loop or the meeting-end watcher calls leaveMeeting
AgentLeaves(b) ==
  /\ page[b] /\ agentPc[b] = "recording"
  /\ agentPc' = [agentPc EXCEPT ![b] = "exited"]
  /\ isActive' = [isActive EXCEPT ![b] = FALSE]
  /\ ParseExtensionLog(b, "Leaving meeting", stopPosted[b])

\* the page's message handler takes the 'stop' command
AgentStopCommand(b) ==
  /\ page[b] /\ stopPosted[b]
  /\ agentPc' = agentPc
  /\ IF isActive[b]
       THEN /\ isActive' = [isActive EXCEPT ![b] = FALSE]
            /\ ParseExtensionLog(b, "Leaving meeting", FALSE)
       ELSE /\ isActive' = isActive
            /\ stopPosted' = [stopPosted EXCEPT ![b] = FALSE]
            /\ statusEvents' = <<>>
            /\ UNCHANGED <<regVars, backendVars, botVars>>

\* one step of the service while its process is alive
Step ==
  \/ \E m \in Meetings : StartSession(m) /\ UNCHANGED <<shutdownVars, captureVars, managerVars, logVars, pageVars>>
  \/ \E m \in Meetings : StopSession(m) /\ UNCHANGED <<shutdownVars, captureVars, managerVars, logVars, pageVars>>
  \/ \E b \in Bots : JoinLaunched(b) /\ UNCHANGED <<shutdownVars, captureVars, managerVars, logVars, pageVars>>
  \/ \E b \in Bots : JoinNavigated(b) /\ UNCHANGED <<shutdownVars, captureVars, managerVars, logVars, pageVars>>
  \/ \E b \in Bots : JoinPoll(b) /\ UNCHANGED <<shutdownVars, captureVars, managerVars, logVars, pageVars>>
  \/ \E b \in Bots : JoinThrow(b) /\ UNCHANGED <<shutdownVars, captureVars, managerVars, logVars, pageVars>>
  \/ \E b \in Bots : TimeoutTimerFires(b) /\ UNCHANGED <<shutdownVars, captureVars, managerVars, logVars, pageVars>>
  \/ \E b \in Bots, k \in LeaveCallers : LeaveFinish(b, k) /\ UNCHANGED <<captureVars, managerVars, logVars, pageVars>>
  \/ \E b \in Bots : FinalizeSettled(b) /\ UNCHANGED <<shutdownVars, captureVars, managerVars, logVars, pageVars>>
  \/ \E b \in Bots : AgentRunBot(b) /\ UNCHANGED <<shutdownVars, captureVars, managerVars, logVars, pageVars>>
  \/ \E b \in Bots : AgentJoined(b) /\ UNCHANGED <<shutdownVars, captureVars, managerVars, logVars, pageVars>>
  \/ \E b \in Bots : AgentJoinFailed(b) /\ UNCHANGED <<shutdownVars, captureVars, managerVars, logVars, pageVars>>
  \/ \E b \in Bots : AgentRecording(b) /\ UNCHANGED <<shutdownVars, captureVars, managerVars, logVars, pageVars>>
  \/ \E b \in Bots : AgentLeaves(b) /\ UNCHANGED <<shutdownVars, captureVars, managerVars, logVars, pageVars>>
  \/ \E b \in Bots : AgentStopCommand(b) /\ UNCHANGED <<shutdownVars, captureVars, managerVars, logVars, pageVars>>
  \/ Shutdown /\ UNCHANGED <<captureVars, managerVars, logVars, pageVars>>

Next == ProcessAlive /\ Step

Spec == Init /\ [][Next]_vars

\* =========================================================================
\*  SpecAgent: capture loop and leave sequence of the Agent
\* =========================================================================

\* the part of the Agent's state one synchronous run of page code works on;
\* begun holds the leaveMeeting invocations it started
Working ==
  [botState |-> botState, lastSpeaker |-> lastSpeaker, leaveLog |-> leaveLog,
   begun |-> <<>>, accepted |-> accepted]

\* getSpeaker: a badge found near the node is remembered and returned, else the
\* last valid speaker or 'Speaker'
ValidBadge(badge) == badge # NoBadge /\ badge # NameUnknownSpeaker

GetSpeaker(badge, last) ==
  IF ValidBadge(badge) THEN badge
  ELSE IF last # <<>> THEN last ELSE NameSpeaker

\* leaveMeeting, up to its first await: no flag is tested or set
LeaveMeetingSync(c, reason, text, type) ==
  [c EXCEPT
     !.botState = [@ EXCEPT !.observing = FALSE, !.flushTimer = FALSE],
     !.leaveLog = Append(@, [reason |-> reason, text |-> text, type |-> type]),
     !.begun = Append(@, [reason |-> reason,
                          segments |-> c.botState.segments \o c.botState.activeSegments])]

\* botState.activeSegments.get(speaker): its position, 0 when absent
ActiveIndex_First(active, speaker) == IF active # <<>> THEN 1 ELSE 0

ActiveIndex(active, speaker) ==
  IF \E i \in DOMAIN active : active[i].speaker = speaker
    THEN CHOOSE i \in DOMAIN active : active[i].speaker = speaker
    ELSE 0

\* text.split(/\s+/).filter(w => w.length > 0).length
WordCount(text) ==
  Cardinality({i \in DOMAIN text : text[i] # " " /\ (i = 1 \/ text[i - 1] = " ")})

\* Math.max(1, wordCount / 2.5), in tenths of a second
EstimatedDuration(text) ==
  IF WordCount(text) * WordDuration < MinDuration THEN MinDuration
  ELSE WordCount(text) * WordDuration

\* start: Math.max(0, currentTime - estimatedDuration)
EstimatedStart(text, now) ==
  IF now < EstimatedDuration(text) THEN 0 ELSE now - EstimatedDuration(text)

\* existing && text.startsWith(existing.text.substring(0, 20))
IsContinuation_Never(existing, text) == FALSE

IsContinuation(existing, text) ==
  StartsWith(text, Substring0(existing.text, ContinuationPrefix))

\* processCaption, segment management at elapsed time now
AddSegment(bs, speaker, text, now) ==
  LET count == bs.segmentCount + 1
      i == ActiveIndex(bs.activeSegments, speaker)
      segment == [speaker |-> speaker, text |-> text,
                  start |-> EstimatedStart(text, now), end |-> now,
                  index |-> count, wordCount |-> WordCount(text)]
  IN  IF i # 0 /\ IsContinuation(bs.activeSegments[i], text)
        THEN [bs EXCEPT !.lastCaption = text, !.segmentCount = count,
                        !.activeSegments = [@ EXCEPT ![i].text = text, ![i].end = now,
                                                     ![i].wordCount = WordCount(text)]]
        ELSE [bs EXCEPT !.lastCaption = text, !.segmentCount = count,
                        !.segments = IF i # 0 THEN Append(@, bs.activeSegments[i]) ELSE @,
                        !.activeSegments = IF i # 0 THEN [@ EXCEPT ![i] = segment]
                                                    ELSE Append(@, segment)]

\* processCaption(node) for the node of one mutation record
ProcessCaption(c, rec) ==
  LET text == rec.node.text
      speaker == GetSpeaker(rec.node.badge, c.lastSpeaker)
      seen == [c EXCEPT !.lastSpeaker = IF ValidBadge(rec.node.badge)
                                           THEN rec.node.badge ELSE @]
  IN  IF text = <<>> \/ text = c.botState.lastCaption THEN seen
      ELSE IF ToLowerCase(text) = ToLowerCase(speaker) THEN seen
      ELSE IF IsUiNoise(text) THEN seen
      ELSE IF speaker = NameUnknownSpeaker /\ Len(text) < MinUnknownSpeakerText THEN seen
      ELSE IF HasExitPhrase(text)
        THEN LeaveMeetingSync(seen, "exit_phrase", text, rec.type)
      ELSE [seen EXCEPT !.botState = AddSegment(@, speaker, text, elapsed),
                        !.lastSpeaker = speaker,
                        !.accepted = Append(@, [speaker |-> speaker, text |-> text,
                                                at |-> elapsed])]

\* the MutationObserver callback: every record of the batch, in order
RECURSIVE ProcessRecords(_, _)
ProcessRecords(c, batch) ==
  IF batch = <<>> THEN c
  ELSE ProcessRecords(ProcessCaption(c, Head(batch)), Tail(batch))

\* finalSegments holds the segment objects themselves: one that a later
\* continuation updated in place is sent with its updated text and end
CurrentSegment(bs, segment) ==
  LET all == bs.segments \o bs.activeSegments
  IN  all[CHOOSE i \in DOMAIN all : all[i].index = segment.index]

\* the 'completed' message of one leaveMeeting invocation
Completed(run, bs) ==
  [reason |-> run.reason,
   segments |-> [i \in DOMAIN run.segments |-> CurrentSegment(bs, run.segments[i])]]

\* end of the synchronous run: a leaveMeeting that found a leave button waits in
\* clickElement's randomDelay; one that found none goes through its awaits
\* without a timer and sends 'completed' before any other task runs
Commit(c, found) ==
  /\ lastSpeaker' = c.lastSpeaker
  /\ leaveLog' = c.leaveLog
  /\ accepted' = c.accepted
  /\ IF found \/ c.begun = <<>>
       THEN /\ botState' = c.botState
            /\ leaving' = leaving \o c.begun
            /\ completedMessages' = completedMessages
       ELSE /\ botState' = [c.botState EXCEPT !.isActive = FALSE, !.isInMeeting = FALSE]
            /\ leaving' = leaving
            /\ completedMessages' =
                 completedMessages \o [i \in DOMAIN c.begun |-> Completed(c.begun[i], c.botState)]

\* clickElement finds a visible leave button only in the call
ButtonFound(found) == found => dom = "call"

\* ---- runBot
\* the auto-start timeout (or a 'start' command) runs runBot
RunBotStart ==
  /\ runBotPc = "loaded" /\ ~botState.isActive
  /\ botState' = [botState EXCEPT !.isActive = TRUE]
  /\ runBotPc' = "joining"
  /\ UNCHANGED <<lastSpeaker, checkEnd, maxDurationTimer, dom, leaving, leaveLog,
                 completedMessages, stopCommands, stopsPosted, recordsSeen, elapsed, accepted>>

\* waitUntilJoined returned
RunBotJoined(joined) ==
  /\ runBotPc = "joining"
  /\ IF joined
       THEN /\ botState' = [botState EXCEPT !.isInMeeting = TRUE]
            /\ runBotPc' = "captions"
            /\ dom' = "call"
       ELSE /\ botState' = [botState EXCEPT !.isActive = FALSE]
            /\ runBotPc' = "returned"
            /\ dom' = dom
  /\ UNCHANGED <<lastSpeaker, checkEnd, maxDurationTimer, leaving, leaveLog,
                 completedMessages, stopCommands, stopsPosted, recordsSeen, elapsed, accepted>>

\* enableCaptions and sendChatMessage returned: startCaptionScraping,
\* startFlushInterval, then await startAudioCapture
RunBotRecording ==
  /\ runBotPc = "captions"
  /\ botState' = [botState EXCEPT !.observing = TRUE, !.flushTimer = TRUE]
  /\ runBotPc' = "audio"
  /\ UNCHANGED <<lastSpeaker, checkEnd, maxDurationTimer, dom, leaving, leaveLog,
                 completedMessages, stopCommands, stopsPosted, recordsSeen, elapsed, accepted>>

\* startAudioCapture returned: watchForMeetingEnd arms its interval and timeout
RunBotWatching ==
  /\ runBotPc = "audio"
  /\ checkEnd' = TRUE
  /\ maxDurationTimer' = TRUE
  /\ runBotPc' = "watching"
  /\ UNCHANGED <<botState, lastSpeaker, dom, leaving, leaveLog, completedMessages,
                 stopCommands, stopsPosted, recordsSeen, elapsed, accepted>>

\* ---- the capture loop
ObserverCallback(batch, found) ==
  /\ botState.observing /\ dom = "call"
  /\ recordsSeen + Len(batch) <= MaxRecords
  /\ ButtonFound(found)
  /\ recordsSeen' = recordsSeen + Len(batch)
  /\ Commit(ProcessRecords(Working, batch), found)
  /\ UNCHANGED <<runBotPc, checkEnd, maxDurationTimer, dom, stopCommands, stopsPosted,
                 elapsed>>

\* ---- watchForMeetingEnd
\* the interval finds hasMeetingEnded() true
CheckEndHit(found) ==
  /\ checkEnd /\ dom = "ended"
  /\ ButtonFound(found)
  /\ checkEnd' = FALSE
  /\ Commit(LeaveMeetingSync(Working, "meeting_ended", <<>>, "none"), found)
  /\ UNCHANGED <<runBotPc, maxDurationTimer, dom, stopCommands, stopsPosted, recordsSeen, elapsed>>

\* the max-duration timeout fires
MaxDurationFires(found) ==
  /\ maxDurationTimer
  /\ ButtonFound(found)
  /\ maxDurationTimer' = FALSE
  /\ Commit(LeaveMeetingSync(Working, "max_duration", <<>>, "none"), found)
  /\ UNCHANGED <<runBotPc, checkEnd, dom, stopCommands, stopsPosted, recordsSeen, elapsed>>

\* ---- the window message handler
\* the Orchestrator's leave() posts a 'stop' command
StopCommandPosted ==
  /\ stopsPosted < MaxStopCommands
  /\ stopsPosted' = stopsPosted + 1
  /\ stopCommands' = stopCommands + 1
  /\ UNCHANGED <<botState, lastSpeaker, runBotPc, checkEnd, maxDurationTimer, dom,
                 leaving, leaveLog, completedMessages, recordsSeen, elapsed, accepted>>

\* type === 'stop' && botState.isActive
StopCommand(found) ==
  /\ stopCommands > 0
  /\ ButtonFound(found)
  /\ stopCommands' = stopCommands - 1
  /\ IF botState.isActive
       THEN Commit(LeaveMeetingSync(Working, "user_requested", <<>>, "none"), found)
       ELSE UNCHANGED <<botState, lastSpeaker, leaving, leaveLog, completedMessages,
                        accepted>>
  /\ UNCHANGED <<runBotPc, checkEnd, maxDurationTimer, dom, stopsPosted, recordsSeen, elapsed>>

\* ---- leaveMeeting after clickElement's delay: the click, then 'completed'
LeaveMeetingResume(i) ==
  /\ i \in DOMAIN leaving
  /\ dom' = "ended"
  /\ completedMessages' = Append(completedMessages, Completed(leaving[i], botState))
  /\ botState' = [botState EXCEPT !.isActive = FALSE, !.isInMeeting = FALSE]
  /\ leaving' = [j \in 1..(Len(leaving) - 1) |-> IF j < i THEN leaving[j] ELSE leaving[j + 1]]
  /\ UNCHANGED <<lastSpeaker, runBotPc, checkEnd, maxDurationTimer, leaveLog,
                 stopCommands, stopsPosted, recordsSeen, elapsed, accepted>>

\* ---- the page: the call ends for everyone, or the bot is removed
MeetingEnds ==
  /\ dom = "call"
  /\ dom' = "ended"
  /\ UNCHANGED <<botState, lastSpeaker, runBotPc, checkEnd, maxDurationTimer, leaving,
                 leaveLog, completedMessages, stopCommands, stopsPosted, recordsSeen, elapsed, accepted>>

\* ---- the clock: a second passes
Tick ==
  /\ runBotPc # "loaded"
  /\ elapsed < MaxSeconds * OneSecond
  /\ elapsed' = elapsed + OneSecond
  /\ UNCHANGED <<botState, lastSpeaker, runBotPc, checkEnd, maxDurationTimer, dom, leaving,
                 leaveLog, completedMessages, stopCommands, stopsPosted, recordsSeen,
                 accepted>>

NextAgent ==
  \/ RunBotStart /\ UNCHANGED <<vars, managerVars, logVars, pageVars>>
  \/ \E joined \in BOOLEAN : RunBotJoined(joined) /\ UNCHANGED <<vars, managerVars, logVars, pageVars>>
  \/ RunBotRecording /\ UNCHANGED <<vars, managerVars, logVars, pageVars>>
  \/ RunBotWatching /\ UNCHANGED <<vars, managerVars, logVars, pageVars>>
  \/ \E batch \in Batches, found \in BOOLEAN : ObserverCallback(batch, found) /\ UNCHANGED <<vars, managerVars, logVars, pageVars>>
  \/ \E found \in BOOLEAN : CheckEndHit(found) /\ UNCHANGED <<vars, managerVars, logVars, pageVars>>
  \/ \E found \in BOOLEAN : MaxDurationFires(found) /\ UNCHANGED <<vars, managerVars, logVars, pageVars>>
  \/ StopCommandPosted /\ UNCHANGED <<vars, managerVars, logVars, pageVars>>
  \/ \E found \in BOOLEAN : StopCommand(found) /\ UNCHANGED <<vars, managerVars, logVars, pageVars>>
  \/ \E i \in DOMAIN leaving : LeaveMeetingResume(i) /\ UNCHANGED <<vars, managerVars, logVars, pageVars>>
  \/ MeetingEnds /\ UNCHANGED <<vars, managerVars, logVars, pageVars>>

\* the clock stands still in SpecAgent (its steps are ordered, not timed);
\* SpecCapture runs the capture loop with the clock
SpecAgent == Init /\ [][NextAgent]_<<vars, captureVars>>

\* =========================================================================
\*  SegmentManager (src/src/captionScraper.ts)
\* =========================================================================

ManagerSpeakers == {NameAlice, NameBob}
ManagerTexts == {TextHiThere, TextHiThereEveryone, TextGoodMorning}

\* one more call may be made on the SegmentManager
\* a call of the owner of the SegmentManager, which makes no call after its
\* terminal flush
ManagerCall ==
  /\ ~terminalFlush
  /\ managerCalls < MaxCalls
  /\ managerCalls' = managerCalls + 1

\* activeSegments.delete(speaker)
RemoveActive_All(active, i) == <<>>

RemoveActive(active, i) ==
  [j \in 1..(Len(active) - 1) |-> IF j < i THEN active[j] ELSE active[j + 1]]

\* markFlushed: this.flushedCount = this.segments.length
FlushedBoundary_Keep(m, segments) == m.flushedCount

FlushedBoundary(m, segments) == Len(segments)

\* addCaption(speaker, text)
AddCaption(speaker, text) ==
  LET m == segmentManager
      i == ActiveIndex(m.activeSegments, speaker)
  IN  /\ ManagerCall
      /\ IF i # 0
           THEN /\ segmentManager' =
                     [m EXCEPT !.activeSegments =
                                 [@ EXCEPT ![i].text = text, ![i].end = managerTime]]
                /\ segmentIds' = segmentIds
           ELSE /\ segmentManager' =
                     [m EXCEPT !.activeSegments =
                                 Append(@, [speaker |-> speaker, text |-> text,
                                            start |-> managerTime, end |-> managerTime,
                                            id |-> segmentIds + 1])]
                /\ segmentIds' = segmentIds + 1
      /\ lastAdded' = text
      /\ UNCHANGED <<managerTime, snapshots, flushed, returned, terminalFlush>>

\* finalizeSegment(speaker)
FinalizeSegment(speaker) ==
  LET m == segmentManager
      i == ActiveIndex(m.activeSegments, speaker)
  IN  /\ ManagerCall
      /\ segmentManager' =
           IF i # 0
             THEN [m EXCEPT !.segments = Append(@, m.activeSegments[i]),
                            !.activeSegments = RemoveActive(@, i)]
             ELSE m
      /\ UNCHANGED <<managerTime, segmentIds, snapshots, flushed, returned, terminalFlush,
                     lastAdded>>

\* getSegmentsForFlush(): the finalized segments past flushedCount, then the
\* active ones
SegmentsForFlush(m) ==
  SubSeq(m.segments, m.flushedCount + 1, Len(m.segments)) \o m.activeSegments

\* what a consumer has of a list of segments: which segment, with which text
IdTexts(segments) == {[id |-> segments[i].id, text |-> segments[i].text] : i \in DOMAIN segments}

GetSegmentsForFlush ==
  /\ ManagerCall
  /\ snapshots' = Append(snapshots, SegmentsForFlush(segmentManager))
  /\ returned' = returned \cup IdTexts(SegmentsForFlush(segmentManager))
  /\ UNCHANGED <<segmentManager, managerTime, segmentIds, flushed, terminalFlush, lastAdded>>

\* the ids of the segments of a list
Ids(segments) == {segments[i].id : i \in DOMAIN segments}

\* markFlushed(), called when the flush of the last snapshot was acknowledged;
\* terminal tells whether the caller made its terminal flush, which the
\* method is not told and does not look at
MarkFlushed(terminal) ==
  LET m == segmentManager
      all == m.segments \o m.activeSegments
  IN  /\ ManagerCall
      /\ segmentManager' = [segments |-> all, activeSegments |-> <<>>,
                            flushedCount |-> FlushedBoundary(m, all)]
      /\ flushed' = IF snapshots = <<>> THEN flushed
                    ELSE flushed \cup Ids(snapshots[Len(snapshots)])
      /\ snapshots' = <<>>
      /\ terminalFlush' = terminal
      /\ UNCHANGED <<managerTime, segmentIds, returned, lastAdded>>

\* a second passes
ManagerTick ==
  /\ managerTime < MaxSeconds * OneSecond
  /\ managerTime' = managerTime + OneSecond
  /\ UNCHANGED <<segmentManager, managerCalls, segmentIds, snapshots, flushed, returned,
                 terminalFlush, lastAdded>>

\* a SegmentManager has been used
ManagerUsed == managerCalls # 0 \/ managerTime # 0

\* =========================================================================
\*  SpecCapture: the two segment aggregators, each run on its own: the
\*  Agent's segment management (one caption node per observer callback, two
\*  speakers, until the meeting ends), or a SegmentManager under the calls of
\*  its interface (no code of the repository constructs one)
\* =========================================================================

CaptureTexts == {TextHiThere, TextHiThereEveryone, TextGoodMorning, TextGoodbye}
CaptureBadges == {NameAlice, NameBob}
CaptureRecords == [type : {"childList"}, node : [badge : CaptureBadges, text : CaptureTexts]]

NextCapture ==
  \/ ~ManagerUsed /\ RunBotStart /\ UNCHANGED <<vars, managerVars, logVars, pageVars>>
  \/ RunBotJoined(TRUE) /\ UNCHANGED <<vars, managerVars, logVars, pageVars>>
  \/ RunBotRecording /\ UNCHANGED <<vars, managerVars, logVars, pageVars>>
  \/ RunBotWatching /\ UNCHANGED <<vars, managerVars, logVars, pageVars>>
  \/ \E rec \in CaptureRecords : ObserverCallback(<<rec>>, FALSE) /\ UNCHANGED <<vars, managerVars, logVars, pageVars>>
  \/ MeetingEnds /\ UNCHANGED <<vars, managerVars, logVars, pageVars>>
  \/ CheckEndHit(FALSE) /\ UNCHANGED <<vars, managerVars, logVars, pageVars>>
  \/ Tick /\ UNCHANGED <<vars, managerVars, logVars, pageVars>>
  \/ \E speaker \in ManagerSpeakers, text \in ManagerTexts :
        runBotPc = "loaded" /\ AddCaption(speaker, text) /\ UNCHANGED <<vars, captureVars, logVars, pageVars>>
  \/ \E speaker \in ManagerSpeakers :
        runBotPc = "loaded" /\ FinalizeSegment(speaker) /\ UNCHANGED <<vars, captureVars, logVars, pageVars>>
  \/ runBotPc = "loaded" /\ GetSegmentsForFlush /\ UNCHANGED <<vars, captureVars, logVars, pageVars>>
  \/ \E terminal \in BOOLEAN :
       runBotPc = "loaded" /\ MarkFlushed(terminal) /\ UNCHANGED <<vars, captureVars, logVars, pageVars>>
  \/ runBotPc = "loaded" /\ ManagerTick /\ UNCHANGED <<vars, captureVars, logVars, pageVars>>

SpecCapture == Init /\ [][NextCapture]_<<vars, captureVars, managerVars, logVars, pageVars>>

(***************************************************************************)
(* The console listener: parseExtensionLog and handleCaption on the        *)
(* caption lines of the two content scripts.                               *)
(***************************************************************************)
Space == " "
LogPrefix == <<"[", "N", "o", "t", "u", ".", "A", "I", " ", "B", "o", "t", "]">>   \* '[Notu.AI Bot]'
CaptionTag == <<"[", "C", "a", "p", "t", "i", "o", "n", "]">>   \* '[Caption]'
Microphone == <<"*">>   \* the microphone emoji that opens the message
ColonSpace == <<":", " ">>
WordsText == <<" ", "w", "o", "r", "d", "s", ",", " ", "~">>   \* ' words, ~'

DigitChar(n) == CHOOSE c \in Digits : c = ToString(n)

\* String(n) of a natural number
RECURSIVE Decimal(_)
Decimal(n) == IF n < 10 THEN <<DigitChar(n)>> ELSE Decimal(n \div 10) \o <<DigitChar(n % 10)>>

\* (tenths / 10).toFixed(1)
ToFixed1(tenths) == Decimal(tenths \div OneSecond) \o <<".">> \o Decimal(tenths % OneSecond)

\* console.log('[Notu.AI Bot]', message): the arguments joined by a space
LogLine(message) == LogPrefix \o <<Space>> \o message

\* the message of the first script: `[Caption] ${speaker}: ${text}`
CaptionMessage1(speaker, text) ==
  Microphone \o <<Space>> \o CaptionTag \o <<Space>> \o speaker \o ColonSpace \o text

\* the message of the second script:
\* `[Caption] ${speaker}: ${text} (${wordCount} words, ~${estimatedDuration.toFixed(1)}s)`
CaptionMessage2(speaker, text) ==
  CaptionMessage1(speaker, text) \o <<Space, "(">> \o Decimal(WordCount(text)) \o WordsText
    \o ToFixed1(EstimatedDuration(text)) \o <<"s", ")">>

CaptionMessage(script, speaker, text) ==
  IF script = 1 THEN CaptionMessage1(speaker, text) ELSE CaptionMessage2(speaker, text)

\* String.prototype.indexOf, counted from 1; 0 when p does not occur
IndexOf(text, p) ==
  LET at == {i \in 1..(Len(text) - Len(p) + 1) : SubSeq(text, i, i + Len(p) - 1) = p}
  IN IF at = {} THEN 0 ELSE CHOOSE i \in at : \A j \in at : i <= j

\* String.prototype.trim
Trim(text) ==
  LET solid == {i \in DOMAIN text : text[i] # Space}
  IN IF solid = {} THEN <<>>
     ELSE SubSeq(text, CHOOSE i \in solid : \A j \in solid : i <= j,
                       CHOOSE i \in solid : \A j \in solid : i >= j)

\* the rest of a text from position i on
From(text, i) == SubSeq(text, i, Len(text))

\* (.+?):\s*(.+) on the text r: the speaker ends at the first colon that has a
\* character before it and one after it
Colons(r) == {k \in 2..(Len(r) - 1) : r[k] = ":"}

\* text.match(/\[Caption\]\s*(.+?):\s*(.+)/): `\s*` takes the spaces after the
\* tag and gives them back one by one while the rest does not match
CaptionMatch(line) ==
  LET at == IndexOf(line, CaptionTag)
      rest == From(line, at + Len(CaptionTag))
      spaces == {w \in 0..Len(rest) : \A i \in 1..w : rest[i] = Space}
      taken == {w \in spaces : Colons(From(rest, w + 1)) # {}}
  IN IF at = 0 \/ taken = {} THEN [matched |-> FALSE]
     ELSE LET w == CHOOSE x \in taken : \A y \in taken : x >= y
              r == From(rest, w + 1)
              k == CHOOSE x \in Colons(r) : \A y \in Colons(r) : x <= y
          IN [matched |-> TRUE, speaker |-> Trim(SubSeq(r, 1, k - 1)),
              text |-> Trim(From(r, k + 1))]

\* a handler that replaces the list, as the assignment in handleCompletion does
HandleCaption_Replace(segments, segment) == <<segment>>

\* handleCaption: this.segments.push(segment)
HandleCaption(segments, segment) == Append(segments, segment)

\* the console listener on a line of the page: lines of the extension go to
\* parseExtensionLog, which hands a caption match to handleCaption (the
\* arrival time that becomes start and end is left out)
ConsoleLine(line, caption) ==
  LET m == CaptionMatch(line)
  IN IF Includes(line, LogPrefix) /\ m.matched
       THEN botSegments' = HandleCaption(botSegments,
                             [speaker |-> m.speaker, text |-> m.text, of |-> caption])
       ELSE botSegments' = botSegments

LogSpeakers == {NameAlice, NameBob}
LogTexts == {TextHiThere, TextGoodMorning}

\* the capture loop of one content script accepts the caption of a speaker
\* and prints its line; the filters of both scripts let these texts pass
ScriptLogsCaption(script, speaker, text) ==
  LET caption == [speaker |-> speaker, text |-> text] IN
  /\ Len(botSegments) < MaxLines
  /\ caption \notin printed[script]
  /\ printed' = [printed EXCEPT ![script] = @ \cup {caption}]
  /\ ConsoleLine(LogLine(CaptionMessage(script, speaker, text)), caption)

NextLog ==
  \/ \E speaker \in LogSpeakers, text \in LogTexts :
       ScriptLogsCaption(1, speaker, text) /\ UNCHANGED <<vars, captureVars, managerVars, delivered, pageVars>>
  \/ \E speaker \in LogSpeakers, text \in LogTexts :
       ScriptLogsCaption(2, speaker, text) /\ UNCHANGED <<vars, captureVars, managerVars, delivered, pageVars>>

SpecLog == Init /\ [][NextLog]_<<vars, captureVars, managerVars, logVars, pageVars>>

(***************************************************************************)
(* Delivery of a session's segments: the lifecycle of one session (the     *)
(* actions of Spec, without shutdown) together with the caption lines of   *)
(* the capturing Agent, the flush timer, the final flush of leave() and    *)
(* the finalize call of the 'completed' handler.                           *)
(***************************************************************************)
MaxHeld == 2           \* segments in MeetBot.segments

\* the phrases parseExtensionLog looks for, in the order of its if/else chain
StatusPhrases ==
  <<
    [phrase |-> "IN_MEETING status sent", text |-> <<"I", "N", "_", "M", "E", "E", "T", "I", "N", "G", " ", "s", "t", "a", "t", "u", "s", " ", "s", "e", "n", "t">>],
    [phrase |-> "Successfully joined meeting", text |-> <<"S", "u", "c", "c", "e", "s", "s", "f", "u", "l", "l", "y", " ", "j", "o", "i", "n", "e", "d", " ", "m", "e", "e", "t", "i", "n", "g">>],
    [phrase |-> "Bot is now recording", text |-> <<"B", "o", "t", " ", "i", "s", " ", "n", "o", "w", " ", "r", "e", "c", "o", "r", "d", "i", "n", "g">>],
    [phrase |-> "Captions enabled", text |-> <<"C", "a", "p", "t", "i", "o", "n", "s", " ", "e", "n", "a", "b", "l", "e", "d">>],
    [phrase |-> "Meeting ended detected", text |-> <<"M", "e", "e", "t", "i", "n", "g", " ", "e", "n", "d", "e", "d", " ", "d", "e", "t", "e", "c", "t", "e", "d">>],
    [phrase |-> "Leaving meeting", text |-> <<"L", "e", "a", "v", "i", "n", "g", " ", "m", "e", "e", "t", "i", "n", "g">>],
    [phrase |-> "Could not join meeting", text |-> <<"C", "o", "u", "l", "d", " ", "n", "o", "t", " ", "j", "o", "i", "n", " ", "m", "e", "e", "t", "i", "n", "g">>],
    [phrase |-> "Blocked from joining", text |-> <<"B", "l", "o", "c", "k", "e", "d", " ", "f", "r", "o", "m", " ", "j", "o", "i", "n", "i", "n", "g">>]
  >>

\* the branch of the chain a console line takes: the first phrase the line
\* includes, "none" when it includes none
StatusBranch(line) ==
  LET hits == {i \in DOMAIN StatusPhrases : Includes(line, StatusPhrases[i].text)}
  IN  IF hits = {} THEN "none"
      ELSE StatusPhrases[CHOOSE i \in hits : \A j \in hits : i <= j].phrase

\* a branch that changes nothing in the session
NoEffectBranches == {"none", "Captions enabled"}

TextLeavingMeeting == <<"L", "e", "a", "v", "i", "n", "g", " ", "m", "e", "e", "t", "i", "n", "g">>   \* 'Leaving meeting'

\* what the participants say in the meeting
SpokenTexts == LogTexts \cup {TextLeavingMeeting}


\* the bot of the one session
TheBot == 1

\* leave() ran in the step just taken: setStatus('leaving') is its first statement
LeaveCalled ==
  \E i \in DOMAIN statusEvents' :
    statusEvents'[i].bot = TheBot /\ statusEvents'[i].status = "leaving"

\* flushSegments: the payload of the 'flush' event, posted by
\* sendSegmentsToBackend, is a copy of the whole list
FlushSegments == delivered' = Len(botSegments)

\* a step of the session: leave() makes its final flush, and a 'completed'
\* event (always followed by leave('meeting_ended')) carries the same list
\* to finalizeMeeting
SessionStep(A) ==
  /\ A
  /\ created' <= TheBot
  /\ IF LeaveCalled THEN FlushSegments ELSE delivered' = delivered
  /\ UNCHANGED <<botSegments, printed, captureVars, managerVars, pageVars>>

\* the flush interval armed by join(): () => this.flushSegments()
FlushTimerFires ==
  /\ flushInterval[TheBot]
  /\ delivered < Len(botSegments)
  /\ FlushSegments
  /\ statusEvents' = <<>>
  /\ UNCHANGED <<regVars, backendVars, botVars, agentVars, shutdownVars, botSegments, printed,
                 captureVars, managerVars, pageVars>>

\* the capture loop of the Agent prints the line of an accepted caption while
\* its page is open
AgentLogsCaption(speaker, text) ==
  /\ page[TheBot] /\ agentPc[TheBot] = "recording"
  /\ Len(botSegments) < MaxHeld
  /\ ~IsUiNoise(text) /\ ~HasExitPhrase(text)
  /\ ScriptLogsCaption(2, speaker, text)
  /\ LET branch == StatusBranch(LogLine(CaptionMessage(2, speaker, text)))
     IN  IF branch \in NoEffectBranches
           THEN /\ statusEvents' = <<>>
                /\ UNCHANGED <<regVars, backendVars, botVars, agentVars>>
           ELSE \* the status part of parseExtensionLog runs before the caption part
                /\ ParseExtensionLog(TheBot, branch, stopPosted[TheBot])
                /\ UNCHANGED <<agentPc, isActive>>
  \* the final flush of a leave() that began in this step comes after the push
  /\ delivered' = IF LeaveCalled THEN Len(botSegments') ELSE delivered
  /\ UNCHANGED <<shutdownVars, captureVars, managerVars, pageVars>>

\* the steps the service takes by itself
SessionRuns ==
  \/ \E b \in Bots : SessionStep(JoinLaunched(b) /\ UNCHANGED shutdownVars)
  \/ \E b \in Bots : SessionStep(JoinNavigated(b) /\ UNCHANGED shutdownVars)
  \/ \E b \in Bots : SessionStep(JoinPoll(b) /\ UNCHANGED shutdownVars)
  \/ \E b \in Bots : SessionStep(JoinThrow(b) /\ UNCHANGED shutdownVars)
  \/ \E b \in Bots : SessionStep(TimeoutTimerFires(b) /\ UNCHANGED shutdownVars)
  \/ \E b \in Bots, k \in LeaveCallers : SessionStep(LeaveFinish(b, k))
  \/ \E b \in Bots : SessionStep(FinalizeSettled(b) /\ UNCHANGED shutdownVars)
  \/ \E b \in Bots : SessionStep(AgentRunBot(b) /\ UNCHANGED shutdownVars)
  \/ \E b \in Bots : SessionStep(AgentJoined(b) /\ UNCHANGED shutdownVars)
  \/ \E b \in Bots : SessionStep(AgentJoinFailed(b) /\ UNCHANGED shutdownVars)
  \/ \E b \in Bots : SessionStep(AgentRecording(b) /\ UNCHANGED shutdownVars)
  \/ \E b \in Bots : SessionStep(AgentLeaves(b) /\ UNCHANGED shutdownVars)
  \/ \E b \in Bots : SessionStep(AgentStopCommand(b) /\ UNCHANGED shutdownVars)
  \/ FlushTimerFires

\* the operator's requests and the speech in the meeting
SessionInputs ==
  \/ \E m \in Meetings : SessionStep(StartSession(m) /\ UNCHANGED shutdownVars)
  \/ \E m \in Meetings : SessionStep(StopSession(m) /\ UNCHANGED shutdownVars)
  \/ \E speaker \in LogSpeakers, text \in SpokenTexts : AgentLogsCaption(speaker, text)

NextDelivery == SessionRuns \/ SessionInputs

allVars == <<vars, captureVars, managerVars, logVars, pageVars>>

\* timers fire, awaited promises settle and the Agent's script runs on
SpecDelivery == Init /\ [][NextDelivery]_allVars /\ WF_allVars(SessionRuns)

(***************************************************************************)
(* The join detector: isInMeeting() of the two content scripts, applied to *)
(* what a page shows.  waitUntilJoined of each script calls its own        *)
(* isInMeeting on every round of its loop.                                 *)
(***************************************************************************)

\* what the waiting-room text of a page is: none, a phrase both scripts list
\* ('Asking to be let in'), or one that only the first script lists
\* ('Someone will let you in soon')
WaitingPhrases == {"none", "Asking to be let in", "Someone will let you in soon"}

\* waitingRoomIndicators of the first script
WaitingRoomIndicators == {"Asking to be let in", "Someone will let you in soon"}

\* waitingTexts of the second script
WaitingTexts == {"Asking to be let in"}

\* a page: the element carrying the meeting code, the Leave call button, a
\* text such as "You're the only one here", the participant panel, the
\* waiting-room element .U0e0y, and the waiting-room phrase in the body text
Pages ==
  [meetingCode : BOOLEAN, leaveBtn : BOOLEAN, meetingText : BOOLEAN, meetingUI : BOOLEAN,
   waitingRoomElement : BOOLEAN, waitingText : WaitingPhrases]

\* isInMeeting of the first script
IsInMeeting1(p) ==
  IF p.waitingText \in WaitingRoomIndicators THEN FALSE
  ELSE IF p.leaveBtn THEN TRUE
  ELSE IF p.meetingText THEN TRUE
  ELSE IF p.meetingUI THEN TRUE
  ELSE FALSE

\* isInMeeting of the second script
IsInMeeting2(p) ==
  IF p.meetingCode THEN TRUE
  ELSE IF p.waitingRoomElement THEN FALSE
  ELSE IF p.waitingText \in WaitingTexts THEN FALSE
  ELSE FALSE

IsInMeeting(script, p) == IF script = 1 THEN IsInMeeting1(p) ELSE IsInMeeting2(p)

\* a round of waitUntilJoined of a script on the page as it is now
WaitUntilJoinedRound(script, p) ==
  pageSeen' = [script |-> script, page |-> p, result |-> IsInMeeting(script, p)]

NextPage ==
  \/ \E p \in Pages : WaitUntilJoinedRound(1, p) /\ UNCHANGED <<vars, captureVars, managerVars, logVars>>
  \/ \E p \in Pages : WaitUntilJoinedRound(2, p) /\ UNCHANGED <<vars, captureVars, managerVars, logVars>>

SpecPage == Init /\ [][NextPage]_allVars

\* =========================================================================
\*  Claims checked under Spec
\* =========================================================================

\* C1 (as stated): once the 'completed' event of a meetingId was delivered to
\* the registry twice, exactly one backend finalize call has been issued.
C1_Original ==
  \A m \in Meetings : completedDelivered[m] >= 2 => finalizeCalls[m] = 1

\* C1 (amended): two deliveries for one meetingId cause exactly one finalize
\* call unless a call failed; the calls issued for a meetingId are its failed
\* calls plus one while the meetingId is in the finalized set (so at most one
\* call is in flight or succeeded), and no call is issued for a meetingId that
\* is in the finalized set.
C1_Amended ==
  /\ [](\A m \in Meetings :
          /\ finalizeCalls[m] = finalizeFailed[m] + (IF m \in finalizedMeetings THEN 1 ELSE 0)
          /\ (completedDelivered[m] >= 2 /\ finalizeFailed[m] = 0) => finalizeCalls[m] = 1)
  /\ [][\A m \in Meetings :
          m \in finalizedMeetings => finalizeCalls'[m] = finalizeCalls[m]]_vars

\* C1 witness: a second 'completed' was delivered while the first finalize
\* call was still in flight, and one call was issued
C1_Witness ==
  \E m \in Meetings :
    /\ completedDelivered[m] = 2
    /\ finalizeCalls[m] = 1
    /\ \E b \in Bots : meetingOf[b] = m /\ handlerPc[b] = "posting"

\* join() of bot b has not settled and has not entered its catch block
JoinInProgress(b) == joinPc[b] \in {"launching", "navigating", "waiting"}

\* C4 (as stated): a startSession call for a meetingId whose first call's join
\* has not finished answers with that first bot's session and constructs no
\* MeetBot.
C4_Original ==
  [][\A m \in Meetings :
       StartSession(m) =>
         \A b \in Bots :
           (meetingOf[b] = m /\ JoinInProgress(b)) =>
             (lastStart'.bot = b /\ created' = created)]_vars

\* C4 (amended): a startSession call for a meetingId that is still in the
\* session map answers with the registered bot's session (the sessionId of the
\* call that constructed it), constructs no MeetBot and leaves the map as it
\* is; a second bot for the meetingId is constructed only after the first was
\* removed from the map.
C4_Amended ==
  [][\A m \in Meetings :
       (StartSession(m) /\ sessions[m] # NoBot) =>
         /\ lastStart'.bot = sessions[m]
         /\ lastStart'.existing
         /\ created' = created
         /\ sessions' = sessions
         /\ meetingOf' = meetingOf]_vars

\* C4 witness: a second startSession call arrived while the first bot was
\* still joining and was answered with that bot
C4_Witness ==
  \E b \in Bots :
    /\ lastStart.existing /\ lastStart.bot = b /\ lastStart.meetingId = meetingOf[b]
    /\ JoinInProgress(b)
    /\ created = 1

\* C5: a failed finalize call takes the meetingId out of the finalized set,
\* and a finalize request for a meetingId that is not in the set issues a new
\* backend call (the set only grows by issuing a call).
C5_RetryAfterFailure ==
  [][\A m \in Meetings :
       /\ finalizeFailed'[m] > finalizeFailed[m] => m \notin finalizedMeetings'
       /\ (finalizeRequests'[m] > finalizeRequests[m] /\ m \notin finalizedMeetings)
            => finalizeCalls'[m] = finalizeCalls[m] + 1
       /\ (m \notin finalizedMeetings /\ m \in finalizedMeetings')
            => finalizeCalls'[m] = finalizeCalls[m] + 1]_vars

\* C5 witness: a finalize call failed and a later request issued a new call
C5_Witness ==
  \E m \in Meetings : finalizeFailed[m] >= 1 /\ finalizeCalls[m] >= 2

\* C6 (as stated): the step in which a finalize call fails leaves the session
\* in the registry's session map.
C6_Claim ==
  [][\A m \in Meetings :
       (finalizeFailed'[m] > finalizeFailed[m] /\ sessions[m] # NoBot)
         => sessions'[m] = sessions[m]]_vars

\* the bot has no leave() in progress
NoLeaveInProgress(b) == \A k \in LeaveCallers : leavePc[b][k] = "idle"

\* C2 (as stated): a bot emits 'completed' at most once, and a bot on which a
\* completion trigger fired (stopSession, the max-duration timer, a
\* meeting-end line) and whose leave() calls all returned has emitted it
\* exactly once.
C2_Claim ==
  \A b \in Bots :
    /\ completedEmitted[b] <= 1
    /\ (status[b] = "completed" /\ NoLeaveInProgress(b) /\ (stops[b] > 0 \/ isLeaving[b]))
         => completedEmitted[b] = 1

\* C3 (as stated): the status is 'completed' only if the bot has emitted a
\* 'completed' event.
C3_Claim ==
  \A b \in Bots : status[b] = "completed" => completedEmitted[b] >= 1

StatusRank(s) ==
  CASE s = "pending" -> 0
    [] s = "joining" -> 1
    [] s = "waiting_admission" -> 2
    [] s = "in_meeting" -> 3
    [] s = "recording" -> 4
    [] s = "leaving" -> 5
    [] s = "completed" -> 6
    [] s = "failed" -> 7

\* s -> t stays in place, moves forward along the order, or fails from a
\* state before 'completed'
ForwardStatus(s, t) ==
  \/ s = t
  \/ s # "failed" /\ t # "failed" /\ StatusRank(s) < StatusRank(t)
  \/ t = "failed" /\ s \notin {"completed", "failed"}

\* C7 (as stated): every status change of a session is a forward move along
\* pending, joining, waiting_admission, in_meeting, recording, leaving,
\* completed, or a move to failed from a state before completed.
C7_Claim ==
  [][\A b \in Bots : ForwardStatus(status[b], status'[b])]_vars

\* the messages that mention a timeout
MentionsTimeout(message) == message \in {"page.goto: Timeout 30000ms exceeded."}

\* C8 (as stated): a join whose wait for the Agent's confirmation timed out
\* records a reason that mentions the timeout, and no finalize call is made
\* for the meeting.
C8_Claim ==
  \A b \in Bots :
    (joinTimedOut[b] /\ status[b] = "failed") =>
      /\ MentionsTimeout(error[b])
      /\ finalizeCalls[meetingOf[b]] = 0

\* ---- claims about the Agent (SpecAgent)

\* C9: once leaveMeeting has run for an exit phrase, no later trigger (the
\* end-of-meeting poll, the max-duration timer, a stop command) runs the leave
\* sequence again or sends a 'completed' message of its own.
C9_Claim ==
  /\ \A i, j \in DOMAIN leaveLog :
       (i < j /\ leaveLog[i].reason = "exit_phrase") =>
          leaveLog[j].reason \notin {"meeting_ended", "max_duration", "user_requested"}
  /\ (leaveLog # <<>> /\ leaveLog[1].reason = "exit_phrase") =>
       \A k \in DOMAIN completedMessages : completedMessages[k].reason = "exit_phrase"

\* C10: one caption text containing an exit phrase starts one leave sequence,
\* also when two mutation records of one callback hand the same text to
\* processCaption.
C10_Claim ==
  \A i, j \in DOMAIN leaveLog :
    (leaveLog[i].reason = "exit_phrase" /\ leaveLog[j].reason = "exit_phrase"
       /\ leaveLog[i].text = leaveLog[j].text) => i = j

\* ---- claims about the Agent's segment management (SpecCapture)

\* the fragments of one speaker that reached segment management, in order
ObservationsOf(speaker) == SelectSeq(accepted, LAMBDA o : o.speaker = speaker)

\* each text of the speaker strictly extends the speaker's previous text
StrictExtensions(speaker) ==
  LET obs == ObservationsOf(speaker)
  IN  \A i \in 1..(Len(obs) - 1) :
        StartsWith(obs[i + 1].text, obs[i].text) /\ Len(obs[i + 1].text) > Len(obs[i].text)

\* the speaker's segments, finalized and active
SegmentsOf(speaker) ==
  SelectSeq(botState.segments \o botState.activeSegments, LAMBDA g : g.speaker = speaker)

\* C11: a speaker whose observations are strict extensions of one another has
\* exactly one segment; it starts at the elapsed time of the first observation
\* and ends at the elapsed time of the last one.
C11_Claim ==
  \A speaker \in CaptureBadges :
    LET obs == ObservationsOf(speaker)
        segs == SegmentsOf(speaker)
    IN  (obs # <<>> /\ StrictExtensions(speaker)) =>
          /\ Len(segs) = 1
          /\ segs[1].start = obs[1].at
          /\ segs[1].end = obs[Len(obs)].at

\* speaker and text of each segment of a list
SpeakerText(segments) ==
  [i \in DOMAIN segments |-> [speaker |-> segments[i].speaker, text |-> segments[i].text]]

\* (Alice, 'Hi there'), (Alice, 'Hi there, everyone'), (Bob, 'Good morning')
ScenarioFragments ==
  << [speaker |-> NameAlice, text |-> TextHiThere],
     [speaker |-> NameAlice, text |-> TextHiThereEveryone],
     [speaker |-> NameBob, text |-> TextGoodMorning] >>

\* C12: after the fragments (Alice, 'Hi there'), (Alice, 'Hi there, everyone'),
\* (Bob, 'Good morning') the segment list of the 'completed' message is
\* [Alice: 'Hi there, everyone', Bob: 'Good morning'], in that order.
C12_Scenario ==
  (SpeakerText(accepted) = ScenarioFragments) =>
     \A k \in DOMAIN completedMessages :
        SpeakerText(completedMessages[k].segments) =
          << [speaker |-> NameAlice, text |-> TextHiThereEveryone],
             [speaker |-> NameBob, text |-> TextGoodMorning] >>

C12_Witness ==
  /\ SpeakerText(accepted) = ScenarioFragments
  /\ completedMessages # <<>>

\* the speakers' segments in a list
OfSpeaker(segments, speaker) == SelectSeq(segments, LAMBDA g : g.speaker = speaker)

\* in a step that finalizes one segment, of speaker A, every other speaker keeps
\* the active segment and the finalized segments it had
OthersUntouched(old, new) ==
  (Len(new.segments) = Len(old.segments) + 1) =>
     \A speaker \in CaptureBadges :
        speaker # new.segments[Len(new.segments)].speaker =>
          /\ OfSpeaker(new.activeSegments, speaker) = OfSpeaker(old.activeSegments, speaker)
          /\ OfSpeaker(new.segments, speaker) = OfSpeaker(old.segments, speaker)

\* C13: finalizing speaker A, by finalizeSegment(A) or by a fragment of A that
\* does not continue A's active segment, leaves the active segment of every
\* other speaker in the table, unchanged, and finalizes none of them.
C13_Frame ==
  [][/\ OthersUntouched(botState, botState')
     /\ OthersUntouched(segmentManager, segmentManager')]_<<captureVars, managerVars>>

\* A's segment was finalized by a new utterance of A while B's segment, opened
\* before that utterance, is active
C13_Witness ==
  \E i \in DOMAIN botState.segments, j, k \in DOMAIN botState.activeSegments :
    /\ botState.activeSegments[k].speaker = botState.segments[i].speaker
    /\ botState.activeSegments[j].speaker # botState.segments[i].speaker
    /\ botState.activeSegments[j].index < botState.activeSegments[k].index

\* ---- claims about the SegmentManager (SpecCapture)

\* a segment of an earlier result is in a later result: the same segment
\* object, with its speaker and start, its end not earlier (its text may have
\* been rewritten by addCaption in between)
Represented(segment, later) ==
  \E i \in DOMAIN later :
    /\ later[i].id = segment.id
    /\ later[i].speaker = segment.speaker
    /\ later[i].start = segment.start
    /\ later[i].end >= segment.end

C15_NoReflush ==
  \A i \in DOMAIN snapshots : Ids(snapshots[i]) \cap flushed = {}

\* a snapshot was acknowledged and a later snapshot returned a new segment
C15_Witness ==
  /\ flushed # {}
  /\ snapshots # <<>>
  /\ snapshots[Len(snapshots)] # <<>>


\* C16: when shutdown() resolves, every session that was registered when it
\* was called has completed its leave: status completed, browser context
\* closed, both timers cleared; and the backend socket is still connected
\* until then.
LeaveCompleted(b) ==
  /\ status[b] = "completed"
  /\ ~page[b]
  /\ ~flushInterval[b]
  /\ ~timeoutTimer[b]

C16_Claim ==
  /\ shutdownPc = "resolved" => \A b \in shutdownTargets : LeaveCompleted(b)
  /\ shutdownPc # "resolved" => socketConnected

\* C17: every stopSession call on a registered session leads to the
\* 'completed' handler running for it: a finalize call is issued for the
\* meeting and the session is removed from the registry. Stated at the states
\* from which the handler can no longer run: once the browser context of a
\* session is gone for good no line of the Agent reaches handleMeetingEnd,
\* so by then the handler has run.
HandlerRan(b) ==
  /\ meetingOf[b] \in Meetings
  /\ finalizeRequests[meetingOf[b]] > 0
  /\ sessions[meetingOf[b]] # b

ContextGone(b) == ~page[b] /\ joinPc[b] \notin {"launching", "closing"}

C17_Claim ==
  \A b \in Bots :
    (stops[b] > 0 /\ ContextGone(b) /\ shutdownPc = "idle") => HandlerRan(b)

\* C18: a status of 'completed' or 'failed' is terminal: no setStatus is
\* applied to a session whose status is one of the two, so its status does
\* not change again and no further status event is emitted for it.
TerminalStatuses == {"completed", "failed"}

C18_Claim ==
  \A i \in DOMAIN statusEvents : statusEvents[i].was \notin TerminalStatuses

\* C19: applying a status that equals the session's current status is a
\* no-op: no 'status' event (and so no bot_status_change push) is emitted for
\* it.
C19_Claim ==
  \A i \in DOMAIN statusEvents : statusEvents[i].status # statusEvents[i].was

\* ---- claims about the console listener (SpecLog)

\* C20: a caption that reaches the Orchestrator twice (the structured message
\* has no listener in meetBot.ts, so twice means two '[Caption]' lines)
\* results in a single segment of the session's segment list, not two.
SegmentsOfCaption(caption) == {i \in DOMAIN botSegments : botSegments[i].of = caption}

C20_Claim ==
  \A speaker \in LogSpeakers, text \in LogTexts :
    Cardinality(SegmentsOfCaption([speaker |-> speaker, text |-> text])) <= 1

\* ---- claims about the transcript of the text channel (SpecCapture)

\* the Orchestrator's list after the console listener has taken the lines the
\* second script printed for the given fragments, one line per fragment
RECURSIVE ListenAll(_, _)
ListenAll(segments, fragments) ==
  IF fragments = <<>> THEN segments
  ELSE LET f == Head(fragments)
           m == CaptionMatch(LogLine(CaptionMessage2(f.speaker, f.text)))
       IN ListenAll(IF m.matched
                      THEN HandleCaption(segments, [speaker |-> m.speaker, text |-> m.text,
                                                    of |-> [speaker |-> f.speaker, text |-> f.text]])
                      ELSE segments,
                    Tail(fragments))

\* MeetBot.segments when the 'Leaving meeting' line arrives: the payload of
\* the 'completed' event and of the finalize call
TextChannelSegments == ListenAll(<<>>, accepted)

\* C21: the segment list the Orchestrator builds from the diagnostic text
\* channel and carries in 'completed' and in the finalize payload equals the
\* Agent's final merged list: one segment per continuous utterance holding
\* the last text, not one segment per raw fragment.
C21_Claim ==
  \A k \in DOMAIN completedMessages :
    SpeakerText(TextChannelSegments) = SpeakerText(completedMessages[k].segments)

\* ---- claims about the Orchestrator's failures and teardown (Spec)

\* join() has run its catch block: the failure was recorded by setStatus('failed', message)
FailureRecorded(b) == error[b] # NoError

\* join() rejected towards startSession
JoinRejected(b) == joinPc[b] = "threw"

\* C22: every failure inside the Orchestrator is translated into a 'failed'
\* status transition, and no exception propagates out of it: join() never
\* rejects towards the Session Registry.
C22_Claim ==
  \A b \in Bots :
    /\ joinPc[b] \in {"closing", "threw"} => FailureRecorded(b)
    /\ ~JoinRejected(b)

\* C22, amended: every failure inside join() is translated into a 'failed'
\* status transition with its message, and join() then rejects towards the
\* Session Registry, which removes the session's map entry.
JoinFails(b) == joinPc[b] \notin {"closing", "threw"} /\ joinPc'[b] \in {"closing", "threw"}

C22_Amended ==
  [][\A b \in Bots :
       /\ JoinFails(b) =>
            /\ status'[b] = "failed"
            /\ error'[b] # NoError
            /\ \E i \in DOMAIN statusEvents' :
                 statusEvents'[i].bot = b /\ statusEvents'[i].status = "failed"
       /\ joinPc'[b] = "threw" => sessions'[meetingOf'[b]] # b]_vars

\* a join that timed out waiting for the Agent has rejected, the status is 'failed'
C22_Witness ==
  \E b \in Bots : JoinRejected(b) /\ joinTimedOut[b] /\ status[b] = "failed"

\* C23: after a session's teardown (cleanup) has run, neither its flush timer
\* nor its max-duration timer fires for it again: once the browser context
\* is closed for good no timer of the session is armed, and the
\* max-duration callback does not run.
C23_Claim ==
  [][\A b \in Bots :
       ContextGone(b) =>
         /\ ~flushInterval[b] /\ ~timeoutTimer[b]
         /\ ~TimeoutTimerFires(b)]_vars

\* leave() called for a stop hands the browser context to context.close()
StopStartsClosing(b) == leavePc[b]["stop"] # "closing" /\ leavePc'[b]["stop"] = "closing"

\* the Agent's 'Leaving meeting' line has reached handleMeetingEnd
AgentReportedLeave(b) == isLeaving[b]

\* C24: on a stop the Orchestrator closes the browser context only after the
\* Agent has reported its leave sequence (meetBot.ts has no grace period
\* timer); it never closes the browser right after posting the stop command.
C24_Claim ==
  [][\A b \in Bots : StopStartsClosing(b) => AgentReportedLeave(b)]_vars

\* ---- claims about the delivery of segments (SpecDelivery)

\* C25: every segment accepted into a session eventually appears in the
\* payload of a batched backend delivery call (a segments flush or the
\* finalize call), under fair scheduling of the timers and of the completion
\* path.
C25_Claim ==
  \A n \in 1..MaxHeld : (Len(botSegments) >= n) ~> (delivered >= n)

\* ---- claims about the SegmentManager's flush protocol (SpecCapture)

\* every segment the SegmentManager holds, finalized or active
Held(m) == m.segments \o m.activeSegments

\* the text every held segment holds has been returned by a
\* getSegmentsForFlush or is returned by the next one
NothingDropped ==
  IdTexts(Held(segmentManager)) \subseteq
    (returned \cup IdTexts(SegmentsForFlush(segmentManager)))

\* markFlushed acknowledges a snapshot taken since the last markFlushed
AcknowledgesSnapshot == snapshots # <<>> /\ snapshots' = <<>>

\* C26: in-progress speech is never silently dropped by the flush protocol:
\* for every interleaving of addCaption, getSegmentsForFlush and markFlushed,
\* text added to an active segment after a snapshot was taken but before
\* markFlushed is still returned by a later getSegmentsForFlush.
C26_Claim ==
  [][(AcknowledgesSnapshot /\ NothingDropped) => NothingDropped']_managerVars

\* C27: markFlushed moves the active segments into the finalized sequence
\* only for a terminal flush; a markFlushed that is not terminal leaves the
\* active-segment table unchanged, so that active segments can still be
\* extended.
C27_Claim ==
  [][MarkFlushed(FALSE) =>
       segmentManager'.activeSegments = segmentManager.activeSegments]_managerVars

\* ---- claims about continuation and duplicates (SpecCapture)

\* the speaker's entry of an active-segment table, as a set of at most one segment
ActiveOf(active, speaker) == {active[i] : i \in {j \in DOMAIN active : active[j].speaker = speaker}}

\* the text begins with the first 20 characters of the segment's text
BeginsWithPrefix(segment, text) ==
  StartsWith(text, Substring0(segment.text, ContinuationPrefix))

\* what C28 says of a fragment (speaker, text) at elapsed time now, on the
\* finalized sequence and the active table before and after it
FragmentApplied(speaker, text, now, segments, active, segmentsAfter, activeAfter) ==
  \A old \in ActiveOf(active, speaker) :
    \E new \in ActiveOf(activeAfter, speaker) :
      IF BeginsWithPrefix(old, text)
        THEN /\ new.text = text /\ new.end = now /\ new.start = old.start
             /\ segmentsAfter = segments
        ELSE /\ new.text = text /\ new.start = now /\ new.end = now
             /\ Len(segmentsAfter) = Len(segments) + 1
             /\ segmentsAfter[Len(segmentsAfter)].text = old.text
             /\ segmentsAfter[Len(segmentsAfter)].speaker = speaker

\* the capture loop of the Agent has accepted one more fragment
AgentFragment == Len(accepted') = Len(accepted) + 1

\* C28 for the Agent's processCaption
C28_Agent ==
  AgentFragment =>
    LET f == accepted'[Len(accepted')]
    IN FragmentApplied(f.speaker, f.text, f.at, botState.segments, botState.activeSegments,
                       botState'.segments, botState'.activeSegments)

\* C28 for SegmentManager.addCaption
C28_Manager ==
  \A speaker \in ManagerSpeakers, text \in ManagerTexts :
    AddCaption(speaker, text) =>
      FragmentApplied(speaker, text, managerTime,
                      segmentManager.segments, segmentManager.activeSegments,
                      segmentManager'.segments, segmentManager'.activeSegments)

\* C28: a fragment of a speaker whose text does not begin with the first 20
\* characters of the speaker's active segment finalizes that segment (appends
\* it to the ordered sequence) and opens a new active segment with
\* start = end = the current elapsed time; a fragment that does begin with the
\* prefix updates text and end and leaves start unchanged
C28_Claim == [][C28_Agent /\ C28_Manager]_<<captureVars, managerVars>>

\* the segment part of the Agent's state: segments, active table and count
AgentSegments(bs) == <<bs.segments, bs.activeSegments, bs.segmentCount>>

\* processCaption on a node whose text is the last-seen text
C29_Agent ==
  \A rec \in CaptureRecords :
    (ObserverCallback(<<rec>>, FALSE) /\ rec.node.text = botState.lastCaption) =>
      /\ AgentSegments(botState') = AgentSegments(botState)
      /\ accepted' = accepted

\* addCaption with the text of the addCaption call before it
C29_Manager ==
  \A speaker \in ManagerSpeakers, text \in ManagerTexts :
    (AddCaption(speaker, text) /\ text = lastAdded) =>
      /\ segmentManager' = segmentManager
      /\ segmentIds' = segmentIds

\* C29: two observations with the same text in immediate succession are a
\* no-op: the second changes no segment (text, start, end), does not
\* increase the segment count and emits no caption event
C29_Claim == [][C29_Agent /\ C29_Manager]_<<captureVars, managerVars>>

\* ---- the bounded wait for admission (SpecDelivery)

\* the session is waiting to be admitted
WaitingAdmission == status[TheBot] = "waiting_admission"

\* the session has reached in_meeting or failed
AdmissionSettled == status[TheBot] \in {"in_meeting", "failed"}

\* waitForExtensionJoin gave up in the step just taken
JoinTimeoutPassed == joinTimedOut'[TheBot] /\ ~joinTimedOut[TheBot]

\* the step ends as a join failure: 'failed' with the message of join()'s throw,
\* timers cleared, join() on its way to rejecting
JoinFailure ==
  /\ status'[TheBot] = "failed"
  /\ error'[TheBot] = JoinFailedMessage
  /\ joinPc'[TheBot] \in {"closing", "threw"}
  /\ ~flushInterval'[TheBot] /\ ~timeoutTimer'[TheBot]

\* C30: from waiting_admission a session never hangs: under fair scheduling
\* it eventually reaches in_meeting or failed, and a wait that lasts past the
\* join timeout ends as a join failure
C30_Claim ==
  /\ WaitingAdmission ~> AdmissionSettled
  /\ [][JoinTimeoutPassed => JoinFailure]_allVars

\* the wait for admission timed out and the session is failed
C30_Witness ==
  /\ joinTimedOut[TheBot]
  /\ status[TheBot] = "failed"
  /\ error[TheBot] = JoinFailedMessage

\* ---- the join detector (SpecPage)

\* the positive indicators the script of the call looks for
PositiveIndicator(call) ==
  IF call.script = 1
    THEN call.page.leaveBtn \/ call.page.meetingText \/ call.page.meetingUI
    ELSE call.page.meetingCode

\* C31: the in-meeting predicate returns true whenever a positive indicator
\* is present (also when a waiting-room indicator is present at the same
\* time), false when only negative indicators are present, and false in the
\* ambiguous state where neither kind is present
C31_Claim == pageSeen # NoCall => pageSeen.result = PositiveIndicator(pageSeen)

\* ---- the capture-loop filters (SpecAgent)

\* C32: a fragment shorter than the minimum length that arrives while the
\* speaker is unresolved (no badge found and no earlier resolved speaker) is
\* rejected: it creates no segment and emits no caption event
C32_Claim ==
  \A i \in DOMAIN accepted :
    ~(accepted[i].speaker = NameSpeaker /\ Len(accepted[i].text) < MinUnknownSpeakerText)

\* the fragment is rejected by the filters the claim names: empty text, text
\* equal case-insensitively to the speaker name, or a UI-noise pattern
RejectedByFilters(rec) ==
  \/ rec.node.text = <<>>
  \/ ToLowerCase(rec.node.text) = ToLowerCase(GetSpeaker(rec.node.badge, lastSpeaker))
  \/ IsUiNoise(rec.node.text)

\* C33: a fragment rejected by the capture-loop filters leaves the whole
\* capture state unchanged: last-seen caption, segment count, finalized
\* segments, active-segment table and the remembered last speaker are the
\* same as before, and no caption event is sent
C33_Claim ==
  [][\A rec \in Records, found \in BOOLEAN :
       (ObserverCallback(<<rec>>, found) /\ RejectedByFilters(rec)) =>
         /\ botState' = botState
         /\ lastSpeaker' = lastSpeaker
         /\ accepted' = accepted]_captureVars

\* ---- the Orchestrator's segment list and the caption lines (SpecDelivery)

\* a list is another one with zero or more segments appended
Extends(after, before) ==
  Len(after) >= Len(before) /\ SubSeq(after, 1, Len(before)) = before

\* C34: a session's segment sequence in the Orchestrator is append-only:
\* across every caption, flush and completion event the sequence is the
\* previous one with zero or more segments appended
C34_Claim == [][Extends(botSegments', botSegments)]_allVars

\* the list holds two segments, was flushed, and the session has emitted
\* 'completed'
C34_Witness ==
  /\ Len(botSegments) = MaxHeld
  /\ delivered >= 1
  /\ completedEmitted[TheBot] >= 1

\* C35: no caption text other than an exit phrase causes an Orchestrator
\* lifecycle transition: the line of an accepted caption changes no status
\* and emits no 'completed', whatever its text
C35_Claim ==
  [][\A speaker \in LogSpeakers, text \in SpokenTexts :
       AgentLogsCaption(speaker, text) =>
         /\ status' = status
         /\ completedEmitted' = completedEmitted]_allVars

\* ---- the registry and the backend events (Spec)

\* the join of bot n failed for good, or its 'completed' handler finished, in
\* the step just taken; a stopSession for its meeting counts as its own too
OwnRemoval(n) ==
  \/ joinPc'[n] = "threw" /\ joinPc[n] # "threw"
  \/ handlerPc'[n] = "done" /\ handlerPc[n] # "done"
  \/ stops'[n] # stops[n]
  \/ \E k \in LeaveCallers : leavePc'[n][k] # leavePc[n][k]

\* C36: the registry removes only the map entry of the bot whose own join
\* failure or completion triggered the removal: a late join failure or
\* 'completed' handler of an earlier bot for a meetingId never deletes the
\* entry of a newer bot registered for it in the meantime
C36_Claim ==
  [][\A m \in Meetings :
       (sessions[m] # NoBot /\ sessions'[m] # sessions[m]) => OwnRemoval(sessions[m])]_vars

\* C37: every session that emits 'completed' gets a backend finalize call,
\* including a later session started for a meetingId whose earlier session
\* was already finalized: the finalized set never suppresses it
C37_Claim ==
  [][\A b \in Bots :
       completedEmitted'[b] > completedEmitted[b] =>
         finalizeCalls'[meetingOf[b]] = finalizeCalls[meetingOf[b]] + 1]_vars

\* C40: for each session the Session Registry pushes at most one
\* 'bot_meeting_ended' event to the backend, whichever path ends the session
C40_Claim == \A b \in Bots : meetingEnded[b] <= 1

\* ---- the Agent after its leave sequence (SpecAgent)

\* a leaveMeeting invocation has run to its end: 'completed' was sent
LeaveSequenceRan == completedMessages # <<>>

\* C38: after the Agent's leave sequence has run, the Agent emits no further
\* 'in_meeting', 'recording' or 'failed' status and no caption events, and
\* does not start the capture loop, the flush interval or the meeting-end
\* watcher
C38_Claim ==
  [][LeaveSequenceRan =>
       /\ runBotPc' = runBotPc
       /\ accepted' = accepted
       /\ botState'.observing => botState.observing
       /\ botState'.flushTimer => botState.flushTimer
       /\ botState'.isInMeeting => botState.isInMeeting
       /\ checkEnd' => checkEnd]_captureVars

\* ---- the order of the final list (SpecCapture)

\* the numbers along a list never go down
NonDecreasing(numbers) ==
  \A i, j \in DOMAIN numbers : i < j => numbers[i] <= numbers[j]

\* the segment indexes along the list of a 'completed' message
IndexesOf(message) == [i \in DOMAIN message.segments |-> message.segments[i].index]

\* C39: the final segment list the Agent sends in its 'completed' message is
\* in utterance order: segment indexes are non-decreasing along the list,
\* for every interleaving of fragments from several speakers
C39_Claim ==
  \A k \in DOMAIN completedMessages : NonDecreasing(IndexesOf(completedMessages[k]))

====
